---------------------------- MODULE Spec2Model ----------------------------
(***************************************************************************)
(* A model of the football ETL pipeline: the orchestrator                  *)
(* (pipeline.py), the data processor (processors/data_processor.py), the   *)
(* data utilities (utils/data_utils.py) and the team-history scraper       *)
(* (scrapers/team_scraper.py).                                             *)
(*                                                                         *)
(* Representation.  A table (pandas DataFrame) is a sequence of records.   *)
(* A team name is the sequence of its space-separated words, so that the   *)
(* suffix regex and the alias lookup of normalize_team_name are computed   *)
(* and not assumed.  A date is a day number (the YYYY-MM-DD string of that *)
(* day; string order and day order agree), NoDate is Python's None, and    *)
(* BadDate is a string no format parses.  The clock `now` counts seconds.  *)
(* A mean is kept as the pair [num, den] of the sum and the count.         *)
(***************************************************************************)
EXTENDS Integers, Sequences, FiniteSets, TLC

(***************************************************************************)
(* Bounds of the model.                                                    *)
(***************************************************************************)
MaxFix == 2          \* rows of a raw fixtures table (pipeline, join)
MaxFixRows == 3      \* rows of a raw fixtures table (process_fixtures alone)
MaxHist == 3         \* rows of a raw team-history table
MaxDay == 2          \* days are 0 .. MaxDay

(***************************************************************************)
(* Program constants.                                                      *)
(***************************************************************************)
SecondsPerDay == 86400
CacheMaxAge == 604800        \* 7 * 24 * 3600
WindowDays == 90
NoDate == -1                 \* None
BadDate == -2                \* a string that matches no date format

VARIABLES
    now,                     \* the wall clock, in seconds
    pc,                      \* position of FootballDataPipeline.run
    log,                     \* the banner and step lines logged by run
    fixtures_df,             \* run: result of scrape_fixtures
    processed_fixtures,      \* run: result of process_fixtures
    team_history_df,         \* run: result of scrape_teams_from_fixtures
    processed_team_history,  \* run: result of process_team_history
    metrics_df,              \* join_data: result of calculate_team_metrics
    combined_data,           \* run: result of join_data
    result,                  \* what run returned
    exc,                     \* the step whose exception run is handling
    propagated,              \* an exception left run
    stats_file,              \* pipeline_stats.json
    written,                 \* files written so far
    env,                     \* which webhook variables are set
    posts,                   \* the notifications POSTed
    spc,                     \* position of scrape_teams_from_fixtures
    params,                  \* its arguments max_workers and retry_failed
    team_list,               \* the teams it scrapes
    task,                    \* per team: the worker task scraping it
    failed_teams,            \* TeamHistoryScraper.failed_teams
    all_team_data,           \* the tables collected so far, with their team
    cache,                   \* per cache path: the cache file
    team_urls,               \* TeamHistoryScraper.team_urls (its keys)
    scrape_result,           \* what scrape_teams_from_fixtures returned
    fpc,                     \* position of scrape_fixtures
    date_range,              \* its arguments start_date, end_date, leagues
    provider,                \* per date: what each tier has for it
    tried,                   \* per processed date: the tiers tried, in order
    all_matches_by_date,     \* the matches kept per date
    fn_pc,                   \* position of a utility function's call
    fn_arg,                  \* the function called and its argument
    fn_ret,                  \* what it returned
    choices,                 \* the example runner: the selections made so far
    config,                  \* the config module's OUTPUT_DIR, TEAM_HISTORY_DAYS
    runs                     \* per selection: what its pipeline run saw

vars == <<now, pc, log, fixtures_df, processed_fixtures, team_history_df,
          processed_team_history, metrics_df, combined_data, result, exc,
          propagated, stats_file, written, env, posts, spc, params, team_list,
          task, failed_teams, all_team_data, cache, team_urls, scrape_result,
          fpc, date_range, provider, tried, all_matches_by_date,
          fn_pc, fn_arg, fn_ret, choices, config, runs>>

menuVars == <<choices, config, runs>>

fetchVars == <<fpc, date_range, provider, tried, all_matches_by_date>>

fnVars == <<fn_pc, fn_arg, fn_ret>>

scrapeVars == <<spc, params, team_list, task, failed_teams, all_team_data, cache,
                team_urls, scrape_result>>

runVars == <<pc, log, fixtures_df, processed_fixtures, team_history_df,
             processed_team_history, metrics_df, combined_data, result, exc,
             propagated, stats_file, written, env, posts>>

(***************************************************************************)
(* Sequence helpers.                                                       *)
(***************************************************************************)
Range(s) == {s[i] : i \in 1..Len(s)}

SeqsUpTo(S, n) == UNION {[1..k -> S] : k \in 0..n}

RECURSIVE Concat(_)
Concat(ss) == IF ss = <<>> THEN <<>> ELSE Head(ss) \o Concat(Tail(ss))

MapSeq(s, F(_)) == [i \in 1..Len(s) |-> F(s[i])]

\* Lexicographic order on integer tuples of one length.
LexLE(a, b) ==
    \A i \in 1..Len(a) : (\A j \in 1..(i - 1) : a[j] = b[j]) => a[i] <= b[i]

\* Insert the pair p = <<key, row>> into the sorted sequence s after every
\* pair whose key is not greater (stable).
RECURSIVE InsertSorted(_, _)
InsertSorted(p, s) ==
    IF s = <<>> THEN <<p>>
    ELSE IF LexLE(s[Len(s)][1], p[1]) THEN Append(s, p)
    ELSE Append(InsertSorted(p, SubSeq(s, 1, Len(s) - 1)), s[Len(s)])

RECURSIVE SortPairs(_)
SortPairs(ps) ==
    IF ps = <<>> THEN <<>>
    ELSE InsertSorted(ps[Len(ps)], SortPairs(SubSeq(ps, 1, Len(ps) - 1)))

\* sort_values: a stable sort of the rows by Key(row), a tuple of integers
\* (pandas sorts several keys with a stable lexsort).
SortValues(s, Key(_)) ==
    LET sorted == SortPairs([i \in 1..Len(s) |-> <<Key(s[i]), s[i]>>])
    IN  [i \in 1..Len(s) |-> sorted[i][2]]

(***************************************************************************)
(* Team names.  An accented letter is written with a trailing underscore   *)
(* (Atle_tico is "Atlético", Mu_nchen is "München").                       *)
(***************************************************************************)
TEAM_NAME_MAPPING ==
    <<"Manchester", "United">> :> <<"Man", "United">> @@
    <<"Manchester", "City">> :> <<"Man", "City">> @@
    <<"Tottenham">> :> <<"Tottenham", "Hotspur">> @@
    <<"Tottenham", "Hotspur">> :> <<"Tottenham">> @@
    <<"Newcastle">> :> <<"Newcastle", "United">> @@
    <<"Newcastle", "United">> :> <<"Newcastle">> @@
    <<"Wolverhampton", "Wanderers">> :> <<"Wolves">> @@
    <<"Wolves">> :> <<"Wolverhampton", "Wanderers">> @@
    <<"Atletico", "Madrid">> :> <<"Atle_tico", "Madrid">> @@
    <<"Atle_tico", "Madrid">> :> <<"Atletico", "Madrid">> @@
    <<"Atletico">> :> <<"Atle_tico", "Madrid">> @@
    <<"Real", "Betis">> :> <<"Betis">> @@
    <<"Betis">> :> <<"Real", "Betis">> @@
    <<"Bayern", "Munich">> :> <<"Bayern", "Mu_nchen">> @@
    <<"Bayern", "Mu_nchen">> :> <<"Bayern", "Munich">> @@
    <<"RB", "Leipzig">> :> <<"Leipzig">> @@
    <<"Leipzig">> :> <<"RB", "Leipzig">> @@
    <<"Bayer", "Leverkusen">> :> <<"Leverkusen">> @@
    <<"Leverkusen">> :> <<"Bayer", "Leverkusen">> @@
    <<"Inter">> :> <<"Inter", "Milan">> @@
    <<"Inter", "Milan">> :> <<"Inter">> @@
    <<"AC", "Milan">> :> <<"Milan">> @@
    <<"Milan">> :> <<"AC", "Milan">> @@
    <<"Paris", "Saint", "Germain">> :> <<"PSG">> @@
    <<"Paris", "Saint-Germain">> :> <<"PSG">> @@
    <<"PSG">> :> <<"Paris", "Saint-Germain">>

\* re.sub(r'\s+FC$|\s+CF$|\s+AFC$', '', name.strip())
StripSuffix(name) ==
    IF Len(name) >= 2 /\ name[Len(name)] \in {"FC", "CF", "AFC"}
    THEN SubSeq(name, 1, Len(name) - 1)
    ELSE name

normalize_team_name(name) ==
    IF name = <<>> THEN <<>>
    ELSE LET stripped == StripSuffix(name)
         IN  IF stripped \in DOMAIN TEAM_NAME_MAPPING
             THEN TEAM_NAME_MAPPING[stripped]
             ELSE stripped

\* The names of the model in Python's string order (code points).
PythonOrder ==
    << <<>>,
       <<"AC", "Milan">>, <<"Arsenal">>, <<"Atletico">>,
       <<"Atletico", "Madrid">>, <<"Atle_tico", "Madrid">>,
       <<"Bayer", "Leverkusen">>, <<"Bayern", "Munich">>,
       <<"Bayern", "Mu_nchen">>, <<"Betis">>, <<"Chelsea">>, <<"Inter">>,
       <<"Inter", "Milan">>, <<"Leipzig">>, <<"Leverkusen">>,
       <<"Liverpool">>, <<"Man", "City">>, <<"Man", "United">>,
       <<"Manchester", "City">>, <<"Manchester", "United">>, <<"Milan">>,
       <<"Newcastle">>, <<"Newcastle", "United">>, <<"PSG">>,
       <<"Paris", "Saint", "Germain">>, <<"Paris", "Saint-Germain">>,
       <<"RB", "Leipzig">>, <<"Real", "Betis">>, <<"Tottenham">>,
       <<"Tottenham", "Hotspur">>, <<"Wolverhampton", "Wanderers">>,
       <<"Wolves">> >>

NameRank(name) ==
    IF name \in Range(PythonOrder)
    THEN CHOOSE i \in 1..Len(PythonOrder) : PythonOrder[i] = name
    ELSE 0

(***************************************************************************)
(* Dates.                                                                  *)
(***************************************************************************)
Days == 0..MaxDay

\* normalize_date: None and the empty string give None, a string in one of
\* the formats gives its day as YYYY-MM-DD, anything else gives None.
normalize_date(d) == IF d \in {NoDate, BadDate} THEN NoDate ELSE d

\* datetime.today().strftime('%Y-%m-%d')
Today == now \div SecondsPerDay


(***************************************************************************)
(* Table helpers.                                                          *)
(***************************************************************************)
\* The rows of s at the indices in keep, in their order in s.
SelectIdx(s, keep) ==
    LET nth(i) == CHOOSE k \in keep : Cardinality({j \in keep : j < k}) = i - 1
    IN  [i \in 1..Cardinality(keep) |-> s[nth(i)]]

(***************************************************************************)
(* FootballDataProcessor.process_fixtures                                  *)
(***************************************************************************)
\* lines 86-95: keep the last space-separated part, then only a string that
\* holds a colon; anything else becomes None.
NormalizeKickoff(k) == IF k \in {"15:00", "20:00"} THEN k ELSE "None"

KickoffRank(k) == CASE k = "15:00" -> 1 [] k = "20:00" -> 2 [] OTHER -> 3

NormalizeFixtureRow(r) ==
    [r EXCEPT !.home_team = normalize_team_name(@),
              !.away_team = normalize_team_name(@),
              !.date = normalize_date(@),
              !.kickoff_time = NormalizeKickoff(@)]

\* A plausible slip: drop_duplicates(keep='last').
DropDuplicatesKeepLast(df) ==
    SelectIdx(df, {i \in 1..Len(df) :
                     \A j \in (i + 1)..Len(df) : df[j].match_id # df[i].match_id})

\* df.drop_duplicates(subset=['match_id'], keep='first')
DropDuplicates(df) ==
    SelectIdx(df, {i \in 1..Len(df) :
                     \A j \in 1..(i - 1) : df[j].match_id # df[i].match_id})

\* A plausible slip: a strict comparison, which drops today's rows.
KeepStrictlyFuture(df, today) ==
    SelectIdx(df, {i \in 1..Len(df) : df[i].date # NoDate /\ df[i].date > today})

\* df[df['date'] >= today]: a row whose date is None compares False.
KeepFuture(df, today) ==
    SelectIdx(df, {i \in 1..Len(df) : df[i].date # NoDate /\ df[i].date >= today})

FixtureSortKey(r) == <<r.date, KickoffRank(r.kickoff_time)>>

\* io_ok is FALSE when writing processed_fixtures.csv (or anything else
\* inside the try block) raises: the handler returns an empty table.
process_fixtures(df, today, io_ok) ==
    IF df = <<>> THEN <<>>
    ELSE IF ~io_ok THEN <<>>
    ELSE SortValues(KeepFuture(DropDuplicates(MapSeq(df, NormalizeFixtureRow)),
                               today),
                    FixtureSortKey)

(***************************************************************************)
(* FootballDataProcessor.process_team_history                              *)
(***************************************************************************)
\* result_mapping.get(str(x).strip(), 'U')
MapResult(x) ==
    CASE x \in {"W", "Win", "win", "1"} -> "W"
      [] x \in {"D", "Draw", "draw", "0.5"} -> "D"
      [] x \in {"L", "Loss", "loss", "0"} -> "L"
      [] OTHER -> "U"

NormalizeHistoryRow(r) ==
    [r EXCEPT !.team = normalize_team_name(@),
              !.opponent = normalize_team_name(@),
              !.date = normalize_date(@),
              !.result = MapResult(@)]

\* sort_values(['team', 'date'], ascending=[True, False]); None sorts last.
HistorySortKey(r) ==
    <<NameRank(r.team), IF r.date = NoDate THEN 1 ELSE 0 - r.date>>

\* df[df['date'] <= today]: a row whose date is None compares False.
KeepPast(df, today) ==
    SelectIdx(df, {i \in 1..Len(df) : df[i].date # NoDate /\ df[i].date <= today})

process_team_history(df, today, io_ok) ==
    IF df = <<>> THEN <<>>
    ELSE IF ~io_ok THEN <<>>
    ELSE KeepPast(SortValues(MapSeq(df, NormalizeHistoryRow), HistorySortKey),
                  today)

(***************************************************************************)
(* aggregate_team_stats and FootballDataProcessor.calculate_team_metrics   *)
(***************************************************************************)
RECURSIVE SumOver(_, _)
SumOver(f, S) ==
    IF S = {} THEN 0
    ELSE LET x == CHOOSE y \in S : TRUE IN f[x] + SumOver(f, S \ {x})

\* result_map = {'W': 1, 'D': 0.5, 'L': 0}, in halves; any other result maps
\* to NaN and is left out of the mean.
ResultHalves(x) == CASE x = "W" -> 2 [] x = "D" -> 1 [] OTHER -> 0

AggregateSortKey(r) == <<NameRank(r.team), r.date>>

\* rolling(f'{window_days}D', min_periods=1) over one team's rows in date
\* order: row i sees the rows of its team up to i whose date is later than
\* date(i) - window_days.
RollingWindowClosedLeft(s, i, window_days) ==
    {j \in 1..i : s[j].team = s[i].team /\ s[j].date >= s[i].date - window_days}

RollingWindow(s, i, window_days) ==
    {j \in 1..i : s[j].team = s[i].team /\ s[j].date > s[i].date - window_days}

aggregate_team_stats(team_history, window_days) ==
    LET s == SortValues(team_history, AggregateSortKey)
        goals == [j \in 1..Len(s) |-> s[j].goals_for]
        halves == [j \in 1..Len(s) |-> ResultHalves(s[j].result)]
        row(i) ==
            LET w == RollingWindow(s, i, window_days)
                known == {j \in w : s[j].result \in {"W", "D", "L"}}
            IN  [team |-> s[i].team,
                 date |-> s[i].date,
                 goals_for |-> [num |-> SumOver(goals, w), den |-> Cardinality(w)],
                 total_goals_for |-> SumOver(goals, w),
                 win_ratio |-> [num |-> SumOver(halves, known),
                                den |-> 2 * Cardinality(known)]]
    IN  [i \in 1..Len(s) |-> row(i)]

\* sort_values(['team', 'date'], ascending=[True, False])
MetricsSortKey(r) == <<NameRank(r.team), 0 - r.date>>

calculate_team_metrics(team_history, io_ok) ==
    IF team_history = <<>> THEN <<>>
    ELSE IF ~io_ok THEN <<>>
    ELSE SortValues(aggregate_team_stats(team_history, WindowDays), MetricsSortKey)

(***************************************************************************)
(* join_fixtures_with_team_history                                         *)
(***************************************************************************)
\* The statistic columns of a metrics row (every column but team, team_norm,
\* match_id and date), and the same columns all absent (NaN).
StatsOf(m) ==
    [present |-> TRUE, goals_for |-> m.goals_for,
     total_goals_for |-> m.total_goals_for, win_ratio |-> m.win_ratio]

NoStats ==
    [present |-> FALSE, goals_for |-> [num |-> 0, den |-> 0],
     total_goals_for |-> 0, win_ratio |-> [num |-> 0, den |-> 0]]

\* lines 136-137: the caller's fixtures table gains the two _norm columns.
WithNormColumns(fixtures) ==
    [i \in 1..Len(fixtures) |->
        [match_id |-> fixtures[i].match_id, date |-> fixtures[i].date,
         home_team |-> fixtures[i].home_team,
         away_team |-> fixtures[i].away_team,
         league |-> fixtures[i].league,
         kickoff_time |-> fixtures[i].kickoff_time,
         home_team_norm |-> normalize_team_name(fixtures[i].home_team),
         away_team_norm |-> normalize_team_name(fixtures[i].away_team)]]

\* The metrics rows a left merge pairs with the key: every row of the team,
\* in table order.
MetricsRowsOf(metrics, key) ==
    SelectIdx(metrics, {j \in 1..Len(metrics) :
                          normalize_team_name(metrics[j].team) = key})

\* One side of the join: fixtures.merge(history, how='left') on the
\* normalized name, reduced to match_id, date and the prefixed statistics.
SideStats(fixtures, metrics, side) ==
    Concat([i \in 1..Len(fixtures) |->
        LET key == IF side = "home" THEN fixtures[i].home_team_norm
                   ELSE fixtures[i].away_team_norm
            rows == MetricsRowsOf(metrics, key)
        IN  IF rows = <<>>
            THEN << [match_id |-> fixtures[i].match_id,
                     date |-> fixtures[i].date, stats |-> NoStats] >>
            ELSE [j \in 1..Len(rows) |->
                     [match_id |-> fixtures[i].match_id,
                      date |-> fixtures[i].date, stats |-> StatsOf(rows[j])]]])

\* home_df.merge(away_df, on='match_id', how='left')
MergeSides(home_df, away_df) ==
    Concat([i \in 1..Len(home_df) |->
        LET rows == SelectIdx(away_df, {j \in 1..Len(away_df) :
                                 away_df[j].match_id = home_df[i].match_id})
        IN  IF rows = <<>>
            THEN << [match_id |-> home_df[i].match_id, date |-> home_df[i].date,
                     home |-> home_df[i].stats, away |-> NoStats] >>
            ELSE [j \in 1..Len(rows) |->
                     [match_id |-> home_df[i].match_id, date |-> home_df[i].date,
                      home |-> home_df[i].stats, away |-> rows[j].stats]]])

\* fixtures.merge(joined, on=['match_id', 'date'], how='left'), then the two
\* _norm columns are dropped.
MergeFixtures(fixtures, joined) ==
    Concat([i \in 1..Len(fixtures) |->
        LET rows == SelectIdx(joined, {j \in 1..Len(joined) :
                                 /\ joined[j].match_id = fixtures[i].match_id
                                 /\ joined[j].date = fixtures[i].date})
            out(h, a) ==
                [match_id |-> fixtures[i].match_id, date |-> fixtures[i].date,
                 home_team |-> fixtures[i].home_team,
                 away_team |-> fixtures[i].away_team,
                 league |-> fixtures[i].league,
                 kickoff_time |-> fixtures[i].kickoff_time,
                 home |-> h, away |-> a]
        IN  IF rows = <<>> THEN << out(NoStats, NoStats) >>
            ELSE [j \in 1..Len(rows) |-> out(rows[j].home, rows[j].away)]])

join_fixtures_with_team_history(fixtures_in, metrics) ==
    IF fixtures_in = <<>> \/ metrics = <<>> THEN <<>>
    ELSE LET fixtures == WithNormColumns(fixtures_in)
         IN  MergeFixtures(fixtures,
                           MergeSides(SideStats(fixtures, metrics, "home"),
                                      SideStats(fixtures, metrics, "away")))

JoinedSortKey(r) == <<r.date>>

(***************************************************************************)
(* Values of the run's variables before anything has happened.             *)
(***************************************************************************)
Pending == [kind |-> "pending", rows |-> <<>>]
ReturnedNone == [kind |-> "None", rows |-> <<>>]
ReturnedTable(t) == [kind |-> "table", rows |-> t]

NoStatsFile ==
    [exists |-> FALSE, fixtures_count |-> 0, teams_count |-> 0,
     joined_records |-> 0, success_rate |-> [zero |-> TRUE, tenths |-> 0]]

NoWebhooks == [slack |-> FALSE, discord |-> FALSE]

\* The variables of a run that has not started.
RunIdle ==
    /\ log = <<>>
    /\ metrics_df = <<>>
    /\ combined_data = <<>>
    /\ result = Pending
    /\ exc = "none"
    /\ propagated = FALSE
    /\ stats_file = NoStatsFile
    /\ written = {}
    /\ posts = <<>>

\* The variables of a fixtures scraper nobody has called.
FetchIdle ==
    /\ fpc = "idle"
    /\ date_range = [start_date |-> 0, end_date |-> 0]
    /\ provider = <<>>
    /\ tried = <<>>
    /\ all_matches_by_date = <<>>

\* config.py lines 13 and 26: the module's values when it is imported.
DefaultConfig == [OUTPUT_DIR |-> "data/output", TEAM_HISTORY_DAYS |-> 365]

\* The example runner has not been started.
MenuIdle ==
    /\ choices = <<>>
    /\ config = DefaultConfig
    /\ runs = <<>>

\* No utility function has been called.
FnIdle ==
    /\ fn_pc = "idle"
    /\ fn_arg = [fn |-> "none"]
    /\ fn_ret = [fn |-> "none"]

\* The variables of a scraper nobody has called.
ScraperIdle ==
    /\ spc = "idle"
    /\ params = [max_workers |-> 1, retry_failed |-> FALSE]
    /\ team_list = {}
    /\ task = <<>>
    /\ failed_teams = {}
    /\ all_team_data = <<>>
    /\ cache = <<>>
    /\ team_urls = {}
    /\ scrape_result = <<>>

(***************************************************************************)
(* SpecProcess: process_fixtures and process_team_history applied to every *)
(* raw table within the bounds, on every run date within the bounds.       *)
(***************************************************************************)
MatchIds == {1, 2}
Tottenham == <<"Tottenham">>
ArsenalFC == <<"Arsenal", "FC">>
Chelsea == <<"Chelsea">>

RawFixtureRows(homes, aways, dates, kickoffs) ==
    [match_id : MatchIds, date : dates, home_team : homes, away_team : aways,
     league : {"Premier League"}, kickoff_time : kickoffs]

RawHistoryRows(teams, dates, goals) ==
    [team : teams, date : dates, opponent : {Chelsea}, result : {"W"},
     goals_for : goals]

InitProcess ==
    /\ now \in {d * SecondsPerDay : d \in 1..MaxDay}
    /\ \/ /\ pc = "process_fixtures"
          /\ fixtures_df \in SeqsUpTo(RawFixtureRows({Tottenham}, {ArsenalFC},
                                                     Days \cup {BadDate},
                                                     {"15:00", ""}),
                                      MaxFixRows)
          /\ team_history_df = <<>>
       \/ /\ pc = "process_team_history"
          /\ fixtures_df = <<>>
          /\ team_history_df \in SeqsUpTo(RawHistoryRows({Tottenham, ArsenalFC},
                                                         Days \cup {BadDate}, {1}),
                                          MaxHist)
    /\ processed_fixtures = <<>>
    /\ processed_team_history = <<>>
    /\ env = NoWebhooks
    /\ RunIdle
    /\ FetchIdle
    /\ FnIdle
    /\ MenuIdle
    /\ ScraperIdle

ApplyProcessFixtures ==
    /\ pc = "process_fixtures"
    /\ \E io_ok \in BOOLEAN :
         /\ processed_fixtures' = process_fixtures(fixtures_df, Today, io_ok)
         /\ written' = IF io_ok /\ fixtures_df # <<>>
                       THEN written \cup {"processed_fixtures.csv"}
                       ELSE written
    /\ pc' = "processed"
    /\ UNCHANGED scrapeVars
    /\ UNCHANGED <<fetchVars, fnVars, menuVars>>
    /\ UNCHANGED <<now, log, fixtures_df, team_history_df,
                   processed_team_history, metrics_df, combined_data, result,
                   exc, propagated, stats_file, env, posts>>

ApplyProcessTeamHistory ==
    /\ pc = "process_team_history"
    /\ \E io_ok \in BOOLEAN :
         /\ processed_team_history' =
                process_team_history(team_history_df, Today, io_ok)
         /\ written' = IF io_ok /\ team_history_df # <<>>
                       THEN written \cup {"processed_team_history.csv"}
                       ELSE written
    /\ pc' = "processed"
    /\ UNCHANGED scrapeVars
    /\ UNCHANGED <<fetchVars, fnVars, menuVars>>
    /\ UNCHANGED <<now, log, fixtures_df, processed_fixtures, team_history_df,
                   metrics_df, combined_data, result, exc, propagated,
                   stats_file, env, posts>>

NextProcess == ApplyProcessFixtures \/ ApplyProcessTeamHistory

SpecProcess == InitProcess /\ [][NextProcess]_vars


(***************************************************************************)
(* FootballDataProcessor.join_data, as run calls it on its own tables.     *)
(* io_metrics and io_join are FALSE when writing team_metrics.csv, or one  *)
(* of the three output files, raises.  Both handlers then return what they *)
(* return on any exception.                                                *)
(***************************************************************************)
OutputFiles == {"football_data.csv", "upcoming_fixtures.csv", "team_history.csv"}

\* A plausible slip: nothing is returned when there is no history.
JoinWithoutHistoryReturnsNothing(fixtures) == <<>>

\* lines 337-340 and 349-352: with no history or no metrics, join_data
\* returns the fixtures it was given.
JoinWithoutHistory(fixtures) == fixtures

JoinData(io_metrics, io_join) ==
    LET metrics ==
            IF processed_fixtures = <<>> \/ processed_team_history = <<>>
            THEN <<>>
            ELSE calculate_team_metrics(processed_team_history, io_metrics)
        joined == join_fixtures_with_team_history(processed_fixtures, metrics)
    IN  /\ metrics_df' = metrics
        /\ processed_fixtures' = IF metrics # <<>>
                                 THEN WithNormColumns(processed_fixtures)
                                 ELSE processed_fixtures
        /\ combined_data' = IF metrics # <<>> /\ io_join
                            THEN SortValues(joined, JoinedSortKey)
                            ELSE IF metrics # <<>> THEN processed_fixtures'
                            ELSE JoinWithoutHistory(processed_fixtures)
        /\ written' = written
                        \cup (IF metrics # <<>> THEN {"team_metrics.csv"} ELSE {})
                        \cup (IF metrics # <<>> /\ io_join THEN OutputFiles ELSE {})

(***************************************************************************)
(* SpecJoin: join_data applied to every pair of processed tables within    *)
(* the bounds.                                                             *)
(***************************************************************************)
JoinFixtureTables ==
    {process_fixtures(t, 1, TRUE) :
        t \in SeqsUpTo(RawFixtureRows({Tottenham, ArsenalFC}, {Chelsea, Tottenham},
                                      {1}, {"15:00"}),
                       MaxFix)}

JoinHistoryTables ==
    {process_team_history(h, 1, TRUE) :
        h \in SeqsUpTo(RawHistoryRows({Tottenham, ArsenalFC}, {0, 1}, {1, 2}),
                       MaxHist)}

InitJoin ==
    /\ now = SecondsPerDay
    /\ pc = "join_data"
    /\ processed_fixtures \in JoinFixtureTables
    /\ processed_team_history \in JoinHistoryTables
    /\ fixtures_df = <<>>
    /\ team_history_df = <<>>
    /\ env = NoWebhooks
    /\ RunIdle
    /\ FetchIdle
    /\ FnIdle
    /\ MenuIdle
    /\ ScraperIdle

ApplyJoinData ==
    /\ pc = "join_data"
    /\ \E io_metrics \in BOOLEAN, io_join \in BOOLEAN : JoinData(io_metrics, io_join)
    /\ pc' = "joined"
    /\ UNCHANGED scrapeVars
    /\ UNCHANGED <<fetchVars, fnVars, menuVars>>
    /\ UNCHANGED <<now, log, fixtures_df, team_history_df,
                   processed_team_history, result, exc, propagated, stats_file,
                   env, posts>>

NextJoin == ApplyJoinData

SpecJoin == InitJoin /\ [][NextJoin]_vars

(***************************************************************************)
(* The statistics-reference site, as the team scraper reads it: a team's   *)
(* schedule table, and the records the detailed and the basic scrape build *)
(* from the first lookback_matches rows of it.                             *)
(***************************************************************************)
LookbackMatches == 7

FBrefSchedule(team_name) ==
    << [date |-> 0, opponent |-> Chelsea, result |-> "W", goals_for |-> 1],
       [date |-> 1, opponent |-> <<"Liverpool", "FC">>, result |-> "L",
        goals_for |-> 2] >>

\* fixtures_df.head(lookback_matches)
HeadRows(df, n) == SubSeq(df, 1, IF n < Len(df) THEN n ELSE Len(df))

\* A plausible slip: the team column keeps the name the scraper was called
\* with instead of its normalized form.
TeamRecordsRawName(team_name, lookback_matches) ==
    LET rows == HeadRows(FBrefSchedule(team_name), lookback_matches)
    IN  [i \in 1..Len(rows) |->
            [team |-> team_name,
             date |-> normalize_date(rows[i].date),
             opponent |-> normalize_team_name(rows[i].opponent),
             result |-> rows[i].result,
             goals_for |-> rows[i].goals_for]]

TeamRecords(team_name, lookback_matches) ==
    LET rows == HeadRows(FBrefSchedule(team_name), lookback_matches)
    IN  [i \in 1..Len(rows) |->
            [team |-> normalize_team_name(team_name),
             date |-> normalize_date(rows[i].date),
             opponent |-> normalize_team_name(rows[i].opponent),
             result |-> rows[i].result,
             goals_for |-> rows[i].goals_for]]

\* The names of a set in Python's string order.
RECURSIVE SortedNames(_)
SortedNames(S) ==
    IF S = {} THEN <<>>
    ELSE LET first == CHOOSE x \in S : \A y \in S : NameRank(x) <= NameRank(y)
         IN  <<first>> \o SortedNames(S \ {first})

\* home_teams + away_teams, without repetition (lines 938-940)
TeamsOf(fixtures) ==
    {fixtures[i].home_team : i \in 1..Len(fixtures)}
        \cup {fixtures[i].away_team : i \in 1..Len(fixtures)}

\* pd.concat(all_team_data) when the teams in scraped delivered a table.
CombinedHistory(scraped, lookback_matches) ==
    LET names == SortedNames(scraped)
    IN  Concat([i \in 1..Len(names) |-> TeamRecords(names[i], lookback_matches)])

(***************************************************************************)
(* FootballDataPipeline.run                                                *)
(***************************************************************************)
\* lines 115-126 of scrape_fixtures: the fixture record of a collected match.
ToFixture(match) ==
    [match_id |-> match.match_id,
     date |-> normalize_date(match.date),
     home_team |-> normalize_team_name(match.home_team),
     away_team |-> normalize_team_name(match.away_team),
     league |-> match.league,
     kickoff_time |-> match.kickoff_time]

CollectedMatches ==
    SeqsUpTo(RawFixtureRows({Tottenham, ArsenalFC}, {Chelsea}, {0, 1}, {"15:00"}),
             MaxFix)

\* A plausible slip: the except clause names a narrower exception class,
\* one that only the two scraping steps raise.
CatchesScrapeErrorsOnly(step) == step \in {"scrape_fixtures", "scrape_teams"}

\* line 131: except Exception
Catches(step) == TRUE

\* A plausible slip: the emptiness test is dropped.
NeverAborts(df) == FALSE

\* lines 69 and 77: if df.empty: return
AbortsOn(df) == df = <<>>

StepLines == <<"Step 1", "Step 2", "Step 3", "Step 4", "Step 5">>

\* An exception raised by `step` inside the try block: control goes to the
\* except clause when it catches it, and leaves run otherwise.
Raise(step) ==
    /\ exc' = step
    /\ pc' = IF Catches(step) THEN "except" ELSE "done"
    /\ propagated' = ~Catches(step)

\* return with no value, before any file of the later steps is written.
Abort ==
    /\ result' = ReturnedNone
    /\ pc' = "done"

StartRun ==
    /\ pc = "idle"
    /\ log' = <<"START">>
    /\ pc' = "step1"
    /\ UNCHANGED scrapeVars
    /\ UNCHANGED <<fetchVars, fnVars, menuVars>>
    /\ UNCHANGED <<now, fixtures_df, processed_fixtures, team_history_df,
                   processed_team_history, metrics_df, combined_data, result,
                   exc, propagated, stats_file, written, env, posts>>

\* Step 1.  scrape_fixtures returns an empty table when nothing was
\* collected, when no collected match is in a configured league (the raw
\* file is written first, then the statistics line raises inside its try
\* block) and when anything else inside its try block raises.
ScrapeFixtures ==
    /\ pc = "step1"
    /\ log' = Append(log, "Step 1")
    /\ \/ /\ Raise("scrape_fixtures")
          /\ UNCHANGED <<fixtures_df, result, written>>
       \/ /\ \E matches \in CollectedMatches, in_leagues \in BOOLEAN :
               /\ fixtures_df' = IF in_leagues THEN MapSeq(matches, ToFixture)
                                 ELSE <<>>
               /\ written' = IF matches # <<>>
                             THEN written \cup {"raw_fixtures.csv"}
                             ELSE written
          /\ IF AbortsOn(fixtures_df')
             THEN Abort
             ELSE pc' = "step2" /\ UNCHANGED result
          /\ UNCHANGED <<exc, propagated>>
    /\ UNCHANGED scrapeVars
    /\ UNCHANGED <<fetchVars, fnVars, menuVars>>
    /\ UNCHANGED <<now, processed_fixtures, team_history_df,
                   processed_team_history, metrics_df, combined_data,
                   stats_file, env, posts>>

\* Step 2.
ProcessFixtures ==
    /\ pc = "step2"
    /\ log' = Append(log, "Step 2")
    /\ \/ /\ Raise("process_fixtures")
          /\ UNCHANGED <<processed_fixtures, result, written>>
       \/ /\ \E io_ok \in BOOLEAN :
               /\ processed_fixtures' = process_fixtures(fixtures_df, Today, io_ok)
               /\ written' = IF io_ok
                             THEN written \cup {"processed_fixtures.csv"}
                             ELSE written
          /\ IF AbortsOn(processed_fixtures')
             THEN Abort
             ELSE pc' = "step3" /\ UNCHANGED result
          /\ UNCHANGED <<exc, propagated>>
    /\ UNCHANGED scrapeVars
    /\ UNCHANGED <<fetchVars, fnVars, menuVars>>
    /\ UNCHANGED <<now, fixtures_df, team_history_df, processed_team_history,
                   metrics_df, combined_data, stats_file, env, posts>>

\* Step 3.  scrape_teams_from_fixtures as run sees it: some of the teams of
\* the fixtures deliver their records, the others fail.
ScrapeTeams ==
    /\ pc = "step3"
    /\ log' = Append(log, "Step 3")
    /\ \/ /\ Raise("scrape_teams")
          /\ UNCHANGED <<team_history_df, written>>
       \/ /\ \E scraped \in SUBSET TeamsOf(processed_fixtures) :
               /\ team_history_df' = CombinedHistory(scraped, LookbackMatches)
               /\ written' = IF scraped # {}
                             THEN written \cup {"raw_team_history_all.csv"}
                             ELSE written
          /\ pc' = "step4"
          /\ UNCHANGED <<exc, propagated>>
    /\ UNCHANGED scrapeVars
    /\ UNCHANGED <<fetchVars, fnVars, menuVars>>
    /\ UNCHANGED <<now, fixtures_df, processed_fixtures, processed_team_history,
                   metrics_df, combined_data, result, stats_file, env, posts>>

\* Step 4.
ProcessTeamHistory ==
    /\ pc = "step4"
    /\ log' = Append(log, "Step 4")
    /\ \/ /\ Raise("process_team_history")
          /\ UNCHANGED <<processed_team_history, written>>
       \/ /\ \E io_ok \in BOOLEAN :
               /\ processed_team_history' =
                      process_team_history(team_history_df, Today, io_ok)
               /\ written' = IF io_ok /\ team_history_df # <<>>
                             THEN written \cup {"processed_team_history.csv"}
                             ELSE written
          /\ pc' = "step5"
          /\ UNCHANGED <<exc, propagated>>
    /\ UNCHANGED scrapeVars
    /\ UNCHANGED <<fetchVars, fnVars, menuVars>>
    /\ UNCHANGED <<now, fixtures_df, processed_fixtures, team_history_df,
                   metrics_df, combined_data, result, stats_file, env, posts>>

\* Step 5.
JoinStep ==
    /\ pc = "step5"
    /\ log' = Append(log, "Step 5")
    /\ \/ /\ Raise("join_data")
          /\ UNCHANGED <<processed_fixtures, metrics_df, combined_data, written>>
       \/ /\ \E io_metrics \in BOOLEAN, io_join \in BOOLEAN :
               JoinData(io_metrics, io_join)
          /\ pc' = "stats"
          /\ UNCHANGED <<exc, propagated>>
    /\ UNCHANGED scrapeVars
    /\ UNCHANGED <<fetchVars, fnVars, menuVars>>
    /\ UNCHANGED <<now, fixtures_df, team_history_df, processed_team_history,
                   result, stats_file, env, posts>>

\* f"{x * 100:.1f}" of the fraction num / den, in tenths of a percent.
PercentTenths(num, den) == (2000 * num + den) \div (2 * den)

\* lines 103-113
PipelineStats ==
    [exists |-> TRUE,
     fixtures_count |-> Len(processed_fixtures),
     teams_count |->
        Cardinality({processed_team_history[i].team :
                        i \in 1..Len(processed_team_history)}),
     joined_records |-> Len(combined_data),
     success_rate |->
        IF team_history_df = <<>> THEN [zero |-> TRUE, tenths |-> 0]
        ELSE [zero |-> FALSE,
              tenths |-> PercentTenths(
                  Len(team_history_df),
                  Cardinality({processed_fixtures[i].home_team :
                                  i \in 1..Len(processed_fixtures)})
                    + Cardinality({processed_fixtures[i].away_team :
                                      i \in 1..Len(processed_fixtures)}))]]

\* lines 124-127 and 135-138: only SLACK_WEBHOOK_URL is read.
Notify(text) == posts' = IF env.slack THEN Append(posts, text) ELSE posts

\* lines 102-129: the statistics, their file, the end banner, the
\* notification and the return value.
FinishRun ==
    /\ pc = "stats"
    /\ \/ /\ Raise("stats")
          /\ UNCHANGED <<stats_file, log, posts, result>>
       \/ /\ stats_file' = PipelineStats
          /\ log' = Append(log, "END")
          /\ Notify("completed")
          /\ result' = ReturnedTable(combined_data)
          /\ pc' = "done"
          /\ UNCHANGED <<exc, propagated>>
    /\ UNCHANGED scrapeVars
    /\ UNCHANGED <<fetchVars, fnVars, menuVars>>
    /\ UNCHANGED <<now, fixtures_df, processed_fixtures, team_history_df,
                   processed_team_history, metrics_df, combined_data, written,
                   env>>

\* lines 131-141
HandleException ==
    /\ pc = "except"
    /\ Notify("failed")
    /\ log' = Append(log, "END")
    /\ result' = ReturnedNone
    /\ pc' = "done"
    /\ UNCHANGED scrapeVars
    /\ UNCHANGED <<fetchVars, fnVars, menuVars>>
    /\ UNCHANGED <<now, fixtures_df, processed_fixtures, team_history_df,
                   processed_team_history, metrics_df, combined_data, exc,
                   propagated, stats_file, written, env>>

Init ==
    /\ now = SecondsPerDay
    /\ pc = "idle"
    /\ fixtures_df = <<>>
    /\ processed_fixtures = <<>>
    /\ team_history_df = <<>>
    /\ processed_team_history = <<>>
    /\ env \in [slack : BOOLEAN, discord : BOOLEAN]
    /\ RunIdle
    /\ FetchIdle
    /\ FnIdle
    /\ MenuIdle
    /\ ScraperIdle

Next ==
    \/ StartRun
    \/ ScrapeFixtures
    \/ ProcessFixtures
    \/ ScrapeTeams
    \/ ProcessTeamHistory
    \/ JoinStep
    \/ FinishRun
    \/ HandleException

Spec == Init /\ [][Next]_vars

(***************************************************************************)
(* Claims about FootballDataPipeline.run (Spec).                           *)
(***************************************************************************)
IsStepLine(l) == l \in Range(StepLines)

StepsLogged == SelectSeq(log, IsStepLine)

\* Step 1 returned, without raising, an empty table.
EmptyScrape ==
    "Step 1" \in Range(log) /\ exc # "scrape_fixtures" /\ fixtures_df = <<>>

\* Step 2 returned, without raising, an empty table.
EmptyProcessed ==
    "Step 2" \in Range(log) /\ exc # "process_fixtures" /\ processed_fixtures = <<>>

\* Step 3 returned, without raising, an empty table.
EmptyHistory ==
    "Step 3" \in Range(log) /\ exc # "scrape_teams" /\ team_history_df = <<>>

NothingAfterStep(k) ==
    /\ pc = "done"
    /\ StepsLogged = SubSeq(StepLines, 1, k)
    /\ result = ReturnedNone
    /\ team_history_df = <<>>
    /\ processed_team_history = <<>>
    /\ combined_data = <<>>
    /\ ~stats_file.exists
    /\ written \cap (OutputFiles \cup {"raw_team_history_all.csv",
                                       "processed_team_history.csv",
                                       "team_metrics.csv"}) = {}

\* C1: the steps of run start in the order 1, 2, 3, 4, 5; once the fixture
\* scrape or process_fixtures has returned an empty table the run has ended
\* there and no later step, nor the statistics file, is ever produced.
C1_StepOrder ==
    /\ \E k \in 0..Len(StepLines) : StepsLogged = SubSeq(StepLines, 1, k)
    /\ EmptyScrape => NothingAfterStep(1)
    /\ EmptyProcessed => NothingAfterStep(2)

\* The scrape found fixtures, processing left none of them, and the run
\* ended after step 2.
C1_Witness ==
    /\ fixtures_df # <<>>
    /\ EmptyProcessed
    /\ pc = "done"

\* C2: no exception raised by a step of run leaves run; a run in which a
\* step raised ends having returned None.
C2_ExceptionsCaught ==
    /\ ~propagated
    /\ (exc # "none" /\ pc = "done") => result = ReturnedNone

\* Writing the statistics raised after all five steps ran, and run returned
\* None.
C2_Witness ==
    /\ exc = "stats"
    /\ pc = "done"
    /\ result = ReturnedNone
    /\ StepsLogged = StepLines

\* C3: when the history scrape returns an empty table the run goes on; if no
\* later step raises it ends with all five steps run, join_data having
\* returned the processed fixtures as they were, the statistics file holding
\* teams_count 0 and success_rate "0%", and the fixtures as its result.
C3_EmptyHistoryContinues ==
    EmptyHistory =>
        /\ pc \in {"step4", "step5", "stats", "except", "done"}
        /\ (pc = "done" /\ exc = "none") =>
              /\ StepsLogged = StepLines
              /\ processed_fixtures # <<>>
              /\ processed_fixtures = process_fixtures(fixtures_df, Today, TRUE)
              /\ combined_data = processed_fixtures
              /\ stats_file.exists
              /\ stats_file.teams_count = 0
              /\ stats_file.success_rate = [zero |-> TRUE, tenths |-> 0]
              /\ result = ReturnedTable(processed_fixtures)

C3_Witness ==
    /\ EmptyHistory
    /\ pc = "done"
    /\ exc = "none"
    /\ Len(processed_fixtures) = 2

(***************************************************************************)
(* Claims about process_fixtures and process_team_history (SpecProcess).   *)
(***************************************************************************)
\* The first input row that carries the match_id m.
FirstOfGroup(m) ==
    CHOOSE i \in 1..Len(fixtures_df) :
        /\ fixtures_df[i].match_id = m
        /\ \A j \in 1..(i - 1) : fixtures_df[j].match_id # m

FixturesProcessed ==
    pc = "processed" /\ "processed_fixtures.csv" \in written

HistoryProcessed ==
    pc = "processed" /\ "processed_team_history.csv" \in written

\* C6: the table process_fixtures returns has no two rows with one match_id;
\* of the input rows that share a match_id only the first in input order is
\* kept by the deduplication: every returned row is the (normalized) first
\* row of its group, and a group's first row is returned whenever its date
\* passes the date filter.
C6_DedupKeepsFirst ==
    pc = "processed" =>
        /\ \A i, j \in 1..Len(processed_fixtures) :
              i # j => processed_fixtures[i].match_id # processed_fixtures[j].match_id
        /\ \A i \in 1..Len(processed_fixtures) :
              processed_fixtures[i] =
                  NormalizeFixtureRow(
                      fixtures_df[FirstOfGroup(processed_fixtures[i].match_id)])
        /\ FixturesProcessed =>
              \A m \in {fixtures_df[i].match_id : i \in 1..Len(fixtures_df)} :
                  LET first == NormalizeFixtureRow(fixtures_df[FirstOfGroup(m)])
                  IN  (first.date # NoDate /\ first.date >= Today) =>
                          first \in Range(processed_fixtures)

\* Two different input rows share a match_id, and the first of them is
\* returned.
C6_Witness ==
    /\ FixturesProcessed
    /\ \E i, j \in 1..Len(fixtures_df) :
          /\ i < j
          /\ fixtures_df[i].match_id = fixtures_df[j].match_id
          /\ NormalizeFixtureRow(fixtures_df[i]) # NormalizeFixtureRow(fixtures_df[j])
          /\ NormalizeFixtureRow(fixtures_df[j]).date >= Today
          /\ NormalizeFixtureRow(fixtures_df[i]) \in Range(processed_fixtures)

\* C7: every row process_fixtures returns is dated on or after the run date,
\* every row process_team_history returns is dated on or before it, and a
\* row dated exactly on the run date is kept by both (for fixtures, when it
\* is the first of its match_id).
C7_DateFilters ==
    pc = "processed" =>
        /\ \A i \in 1..Len(processed_fixtures) :
              processed_fixtures[i].date # NoDate /\ processed_fixtures[i].date >= Today
        /\ \A i \in 1..Len(processed_team_history) :
              /\ processed_team_history[i].date # NoDate
              /\ processed_team_history[i].date <= Today
        /\ FixturesProcessed =>
              \A i \in 1..Len(fixtures_df) :
                  (fixtures_df[i].date = Today
                     /\ i = FirstOfGroup(fixtures_df[i].match_id)) =>
                      NormalizeFixtureRow(fixtures_df[i]) \in Range(processed_fixtures)
        /\ HistoryProcessed =>
              \A i \in 1..Len(team_history_df) :
                  team_history_df[i].date = Today =>
                      NormalizeHistoryRow(team_history_df[i])
                          \in Range(processed_team_history)

\* A raw fixtures table with a row before, a row on and a row after the run
\* date: the first is dropped, the other two are returned.
C7_Witness ==
    /\ FixturesProcessed
    /\ \E i, j, k \in 1..Len(fixtures_df) :
          /\ fixtures_df[i].date # BadDate /\ fixtures_df[i].date < Today
          /\ fixtures_df[j].date = Today
          /\ fixtures_df[k].date > Today
    /\ Len(processed_fixtures) = 2
    /\ \E i \in 1..2 : processed_fixtures[i].date = Today

(***************************************************************************)
(* Claims about the join (SpecJoin).                                       *)
(***************************************************************************)
Joined == pc = "joined" /\ "football_data.csv" \in written

\* C4: joining N fixtures (unique match_ids) against a non-empty metrics
\* table returns exactly N rows, however many metrics rows a team has.
C4_JoinCompleteness ==
    Joined => Len(combined_data) = Len(processed_fixtures)

\* The metrics rows of the team whose normalized name is key that no other
\* row of that team is later than.
LatestRows(key) ==
    {j \in 1..Len(metrics_df) :
        /\ normalize_team_name(metrics_df[j].team) = key
        /\ \A k \in 1..Len(metrics_df) :
              normalize_team_name(metrics_df[k].team) = key =>
                  metrics_df[k].date <= metrics_df[j].date}

\* C5: in every joined row the home_ values are those of the home team's
\* most recent metrics row, and the away_ values those of the away team's;
\* no older metrics row contributes.
C5_LatestMetricsOnly ==
    Joined =>
        \A i \in 1..Len(combined_data) :
            /\ combined_data[i].home.present =>
                  \E j \in LatestRows(normalize_team_name(combined_data[i].home_team)) :
                      combined_data[i].home = StatsOf(metrics_df[j])
            /\ combined_data[i].away.present =>
                  \E j \in LatestRows(normalize_team_name(combined_data[i].away_team)) :
                      combined_data[i].away = StatsOf(metrics_df[j])

(***************************************************************************)
(* TeamHistoryScraper: the per-team cache, scrape_team_history and         *)
(* scrape_teams_from_fixtures with its two worker pools.                   *)
(***************************************************************************)
MaxWorkers == 3

\* The cache file name of a team.  Lower-casing and the underscores are
\* one-to-one on the names of the model, so the normalized name is the path.
get_cache_path(team_name) == normalize_team_name(team_name)

\* A cache file: absent, not JSON ("invalid"), JSON that is no array
\* ("object"), or a JSON array ("array") of records, with its st_mtime.
NoFile == [kind |-> "absent", mtime |-> 0, data |-> <<>>]

FreshUpToSevenDays(cache_age) == cache_age <= 7 * 24 * 3600

\* cache_age < 7 * 24 * 3600
Fresh(cache_age) == cache_age < 7 * 24 * 3600

None == [some |-> FALSE, df |-> <<>>]
Some(df) == [some |-> TRUE, df |-> df]

\* _load_from_cache at clock value at: the cached table, or None.
load_from_cache(file, at) ==
    IF file.kind = "absent" THEN None
    ELSE IF file.kind = "invalid" THEN None
    ELSE IF file.kind = "array" /\ Len(file.data) > 0
         THEN IF Fresh(at - file.mtime) THEN Some(file.data) ELSE None
         ELSE None

\* _save_to_cache at clock value at: an empty table is not written.
save_to_cache(files, team_name, df, at) ==
    IF df = <<>> THEN files
    ELSE [files EXCEPT ![get_cache_path(team_name)] =
              [kind |-> "array", mtime |-> at, data |-> df]]

\* The clubs of _find_team_url's table of predefined URLs.
common_teams ==
    { <<"Manchester", "United">>, <<"Arsenal">>, <<"Liverpool">>,
      <<"Manchester", "City">>, <<"Chelsea">>, <<"Barcelona">>,
      <<"Real", "Madrid">>, <<"Bayern", "Munich">>,
      <<"Paris", "Saint-Germain">>, <<"Juventus">> }

HasPredefinedUrl(team_name) ==
    \E common_name \in common_teams :
        normalize_team_name(team_name) = normalize_team_name(common_name)

\* max(1, max_workers // 2), and the first pool's width in its place.
SamePool(max_workers) == max_workers

RetryWorkers(max_workers) ==
    IF max_workers \div 2 > 1 THEN max_workers \div 2 ELSE 1

\* A task as submitted: which pool it belongs to, where it stands, the table
\* it returned, the cache file it read, the steps it took, how often it was
\* started and how its first-pass future ended.
NewTask ==
    [phase |-> 1, pc |-> "queued", df |-> <<>>, seen |-> NoFile,
     trace |-> <<>>, starts |-> 0, first |-> "none"]

CurrentPhase == IF spc = "pass1" THEN 1 ELSE IF spc = "retry" THEN 2 ELSE 0

Running(phase) ==
    {t \in DOMAIN task :
        /\ task[t].phase = phase
        /\ task[t].pc \in {"load_cache", "find_url", "detailed", "basic"}}

PoolWidth(phase) ==
    IF phase = 1 THEN params.max_workers ELSE RetryWorkers(params.max_workers)

\* The loop over the futures left after its first round.
AnyCollected == \E t \in DOMAIN task : task[t].pc = "collected"

\* as_completed yields every submitted future before the loop ends, and the
\* with-block joins the pool.
AllCollected == \A t \in DOMAIN task : task[t].pc = "collected"

\* Lines 932-971: the call resets its bookkeeping and submits one task per team.
StartScrape ==
    /\ spc = "idle"
    /\ team_list # {}
    /\ spc' = "pass1"
    /\ all_team_data' = <<>>
    /\ failed_teams' = {}
    /\ task' = [t \in team_list |-> NewTask]
    /\ UNCHANGED <<now, params, team_list, cache, team_urls, scrape_result>>
    /\ UNCHANGED runVars
    /\ UNCHANGED <<fetchVars, fnVars, menuVars>>

\* A worker of the current pool takes a submitted task.
StartTask(t) ==
    /\ CurrentPhase \in {1, 2}
    /\ task[t].phase = CurrentPhase
    /\ task[t].pc = "queued"
    /\ Cardinality(Running(CurrentPhase)) < PoolWidth(CurrentPhase)
    /\ task' = [task EXCEPT ![t].pc = IF CurrentPhase = 1 THEN "load_cache"
                                       ELSE "find_url",
                            ![t].starts = @ + 1]
    /\ UNCHANGED <<now, spc, params, team_list, failed_teams, all_team_data,
                   cache, team_urls, scrape_result>>
    /\ UNCHANGED runVars
    /\ UNCHANGED <<fetchVars, fnVars, menuVars>>

\* scrape_team_history, lines 835-839.
LoadCache(t) ==
    /\ task[t].pc = "load_cache"
    /\ LET file == cache[get_cache_path(t)]
           cached_df == load_from_cache(file, now)
       IN  IF cached_df.some /\ cached_df.df # <<>>
           THEN task' = [task EXCEPT ![t].pc = "returned",
                                     ![t].df = cached_df.df,
                                     ![t].seen = file,
                                     ![t].trace = Append(@, "cache_hit")]
           ELSE task' = [task EXCEPT ![t].pc = "find_url",
                                     ![t].seen = file,
                                     ![t].trace = Append(@, "cache_miss")]
    /\ UNCHANGED <<now, spc, params, team_list, failed_teams, all_team_data,
                   cache, team_urls, scrape_result>>
    /\ UNCHANGED runVars
    /\ UNCHANGED <<fetchVars, fnVars, menuVars>>

\* _find_team_url as called at line 842 and at line 817: a remembered or
\* predefined URL needs no request, otherwise the search finds one or not.
FindTeamUrl(t) ==
    /\ task[t].pc = "find_url"
    /\ LET known == t \in team_urls \/ HasPredefinedUrl(t)
       IN  \E found \in (IF known THEN {TRUE} ELSE BOOLEAN) :
             LET step == IF known THEN "url_known"
                         ELSE IF found THEN "url_found" ELSE "url_none"
             IN  /\ team_urls' = IF found THEN team_urls \cup {t} ELSE team_urls
                 /\ IF found
                    THEN /\ task' = [task EXCEPT
                                ![t].pc = IF task[t].phase = 1 THEN "detailed"
                                          ELSE "basic",
                                ![t].trace = Append(@, step)]
                         /\ UNCHANGED failed_teams
                    ELSE /\ task' = [task EXCEPT ![t].pc = "returned",
                                                 ![t].df = <<>>,
                                                 ![t].trace = Append(@, step)]
                         /\ failed_teams' = IF task[t].phase = 1
                                            THEN failed_teams \cup {t}
                                            ELSE failed_teams
    /\ UNCHANGED <<now, spc, params, team_list, all_team_data, cache,
                   scrape_result>>
    /\ UNCHANGED runVars
    /\ UNCHANGED <<fetchVars, fnVars, menuVars>>

\* Lines 850-862: the detailed scrape delivers records, nothing, or raises.
DetailedScrape(t) ==
    /\ task[t].pc = "detailed"
    /\ \E outcome \in {"rows", "empty", "raised"} :
         LET df == TeamRecords(t, LookbackMatches)
         IN  IF outcome = "rows" /\ df # <<>>
             THEN /\ cache' = save_to_cache(cache, t, df, now)
                  /\ task' = [task EXCEPT ![t].pc = "returned",
                                          ![t].df = df,
                                          ![t].trace = Append(@, "detailed_rows")]
             ELSE /\ outcome # "rows"
                  /\ task' = [task EXCEPT
                         ![t].pc = "basic",
                         ![t].trace = Append(@, IF outcome = "empty"
                                                THEN "detailed_empty"
                                                ELSE "detailed_raised")]
                  /\ UNCHANGED cache
    /\ UNCHANGED <<now, spc, params, team_list, failed_teams, all_team_data,
                   team_urls, scrape_result>>
    /\ UNCHANGED runVars
    /\ UNCHANGED <<fetchVars, fnVars, menuVars>>

\* The basic scrape: lines 863-877 in the first pass, lines 822-827 in the
\* retry pass, where nothing catches what it raises.
BasicScrape(t) ==
    /\ task[t].pc = "basic"
    /\ \E outcome \in {"rows", "empty", "raised"} :
         LET df == TeamRecords(t, LookbackMatches)
         IN  \/ /\ outcome = "rows" /\ df # <<>>
                /\ cache' = save_to_cache(cache, t, df, now)
                /\ task' = [task EXCEPT ![t].pc = "returned",
                                        ![t].df = df,
                                        ![t].trace = Append(@, "basic_rows")]
                /\ UNCHANGED failed_teams
             \/ /\ outcome = "empty"
                /\ task' = [task EXCEPT ![t].pc = "returned",
                                        ![t].df = <<>>,
                                        ![t].trace = Append(@, "basic_empty")]
                /\ UNCHANGED <<cache, failed_teams>>
             \/ /\ outcome = "raised"
                /\ task' = [task EXCEPT
                       ![t].pc = IF task[t].phase = 1 THEN "returned"
                                 ELSE "raised",
                       ![t].df = <<>>,
                       ![t].trace = Append(@, "basic_raised")]
                /\ failed_teams' = IF task[t].phase = 1
                                   THEN failed_teams \cup {t}
                                   ELSE failed_teams
                /\ UNCHANGED cache
    /\ UNCHANGED <<now, spc, params, team_list, all_team_data, team_urls,
                   scrape_result>>
    /\ UNCHANGED runVars
    /\ UNCHANGED <<fetchVars, fnVars, menuVars>>

\* scrape_team_history raises outside its own handlers (its first statement
\* is the logging call of line 832): the future holds the exception.
TaskRaises(t) ==
    /\ task[t].pc = "load_cache"
    /\ task' = [task EXCEPT ![t].pc = "raised",
                            ![t].trace = Append(@, "raised")]
    /\ UNCHANGED <<now, spc, params, team_list, failed_teams, all_team_data,
                   cache, team_urls, scrape_result>>
    /\ UNCHANGED runVars
    /\ UNCHANGED <<fetchVars, fnVars, menuVars>>

\* One round of the as_completed loop, lines 974-994 and 1010-1029.
Collect(t) ==
    /\ CurrentPhase \in {1, 2}
    /\ task[t].phase = CurrentPhase
    /\ task[t].pc \in {"returned", "raised"}
    /\ LET ended == IF task[t].pc = "raised" THEN "raised"
                    ELSE IF task[t].df # <<>> THEN "rows" ELSE "empty"
       IN  /\ task' = [task EXCEPT
                  ![t].pc = "collected",
                  ![t].first = IF CurrentPhase = 1 THEN ended ELSE @]
           /\ IF ended = "rows"
              THEN /\ all_team_data' =
                          Append(all_team_data, [team |-> t, df |-> task[t].df])
                   /\ UNCHANGED failed_teams
              ELSE /\ failed_teams' = failed_teams \cup {t}
                   /\ UNCHANGED all_team_data
    /\ UNCHANGED <<now, spc, params, team_list, cache, team_urls, scrape_result>>
    /\ UNCHANGED runVars
    /\ UNCHANGED <<fetchVars, fnVars, menuVars>>

\* BeginRetry without line 1002: the failed set is not emptied.
BeginRetryKeepsFailed ==
    /\ spc = "pass1"
    /\ AllCollected
    /\ params.retry_failed /\ failed_teams # {}
    /\ spc' = "retry"
    /\ task' = [t \in DOMAIN task |->
                   IF t \in failed_teams
                   THEN [task[t] EXCEPT !.phase = 2, !.pc = "queued",
                                        !.df = <<>>,
                                        !.trace = Append(@, "retry")]
                   ELSE task[t]]
    /\ UNCHANGED <<now, params, team_list, failed_teams, all_team_data, cache,
                   team_urls, scrape_result>>
    /\ UNCHANGED runVars
    /\ UNCHANGED <<fetchVars, fnVars, menuVars>>

\* Lines 997-1008: the first pool has shut down; the failed teams are
\* submitted to the retry pool and the failed set starts empty again.
BeginRetry ==
    /\ spc = "pass1"
    /\ AllCollected
    /\ params.retry_failed /\ failed_teams # {}
    /\ spc' = "retry"
    /\ task' = [t \in DOMAIN task |->
                   IF t \in failed_teams
                   THEN [task[t] EXCEPT !.phase = 2, !.pc = "queued",
                                        !.df = <<>>,
                                        !.trace = Append(@, "retry")]
                   ELSE task[t]]
    /\ failed_teams' = {}
    /\ UNCHANGED <<now, params, team_list, all_team_data, cache, team_urls,
                   scrape_result>>
    /\ UNCHANGED runVars
    /\ UNCHANGED <<fetchVars, fnVars, menuVars>>

\* Lines 1031-1060: the collected tables are concatenated, saved and returned.
FinishScrape ==
    /\ \/ spc = "retry"
       \/ spc = "pass1" /\ ~(params.retry_failed /\ failed_teams # {})
    /\ AllCollected
    /\ spc' = "finished"
    /\ scrape_result' =
           Concat([i \in 1..Len(all_team_data) |-> all_team_data[i].df])
    /\ written' = IF all_team_data # <<>>
                  THEN written \cup {"raw_team_history_all.csv"}
                  ELSE written
    /\ UNCHANGED <<now, params, team_list, task, failed_teams, all_team_data,
                   cache, team_urls>>
    /\ UNCHANGED <<fetchVars, fnVars, menuVars>>
    /\ UNCHANGED <<pc, log, fixtures_df, processed_fixtures, team_history_df,
                   processed_team_history, metrics_df, combined_data, result,
                   exc, propagated, stats_file, env, posts>>

NextScrape ==
    \/ StartScrape
    \/ \E t \in DOMAIN task : StartTask(t)
    \/ \E t \in DOMAIN task : LoadCache(t)
    \/ \E t \in DOMAIN task : FindTeamUrl(t)
    \/ \E t \in DOMAIN task : DetailedScrape(t)
    \/ \E t \in DOMAIN task : BasicScrape(t)
    \/ \E t \in DOMAIN task : TaskRaises(t)
    \/ \E t \in DOMAIN task : Collect(t)
    \/ BeginRetry
    \/ FinishScrape

\* The cache files a team can have at a clock value at: none, broken ones,
\* and records written by an earlier run at time 0.
CacheFilesOf(team_name) ==
    { NoFile,
      [kind |-> "invalid", mtime |-> 0, data |-> <<>>],
      [kind |-> "object", mtime |-> 0, data |-> <<>>],
      [kind |-> "array", mtime |-> 0, data |-> <<>>],
      [kind |-> "array", mtime |-> 0,
       data |-> TeamRecords(team_name, LookbackMatches)] }

\* The clock values a cache written at time 0 is checked at.
CheckTimes ==
    { 6 * SecondsPerDay, 7 * SecondsPerDay - 1, 7 * SecondsPerDay,
      8 * SecondsPerDay }

Spurs == <<"Tottenham", "Hotspur">>
Arsenal == <<"Arsenal">>
Wolves == <<"Wolves">>

\* SpecTeam: one team, with every cache file and clock value above.
InitTeam ==
    /\ now \in CheckTimes
    /\ RunIdle
    /\ FetchIdle
    /\ FnIdle
    /\ MenuIdle
    /\ pc = "idle"
    /\ env = NoWebhooks
    /\ fixtures_df = <<>>
    /\ processed_fixtures = <<>>
    /\ team_history_df = <<>>
    /\ processed_team_history = <<>>
    /\ spc = "idle"
    /\ params \in [max_workers : {1}, retry_failed : BOOLEAN]
    /\ team_list \in {{Spurs}, {Arsenal}}
    /\ task = <<>>
    /\ failed_teams \in {{}, {Chelsea}}
    /\ all_team_data = <<>>
    /\ \E file \in UNION {CacheFilesOf(t) : t \in team_list} :
           cache = [path \in {get_cache_path(t) : t \in team_list} |-> file]
    /\ team_urls = {}
    /\ scrape_result = <<>>

SpecTeam == InitTeam /\ [][NextScrape]_vars

\* SpecScrape: two teams on pools of every width up to MaxWorkers.
InitScrape ==
    /\ now = 8 * SecondsPerDay
    /\ RunIdle
    /\ FetchIdle
    /\ FnIdle
    /\ MenuIdle
    /\ pc = "idle"
    /\ env = NoWebhooks
    /\ fixtures_df = <<>>
    /\ processed_fixtures = <<>>
    /\ team_history_df = <<>>
    /\ processed_team_history = <<>>
    /\ spc = "idle"
    /\ params \in [max_workers : 1..MaxWorkers, retry_failed : BOOLEAN]
    /\ team_list = {Spurs, Arsenal}
    /\ task = <<>>
    /\ failed_teams = {}
    /\ all_team_data = <<>>
    /\ cache = [path \in {get_cache_path(t) : t \in team_list} |-> NoFile]
    /\ team_urls = {}
    /\ scrape_result = <<>>

SpecScrape == InitScrape /\ [][NextScrape]_vars

(***************************************************************************)
(* Claims about the team scraper.                                          *)
(***************************************************************************)
\* What the claims call a hit: the file exists, holds a non-empty JSON array
\* and is less than 604,800 seconds old.
Honoured(file, at) ==
    /\ file.kind = "array"
    /\ Len(file.data) > 0
    /\ at - file.mtime < CacheMaxAge

UrlSteps == {"url_known", "url_found", "url_none"}

\* The tasks that have consulted the cache.
Consulted ==
    {t \in DOMAIN task :
        task[t].trace # <<>> /\ task[t].trace[1] \in {"cache_hit", "cache_miss"}}

\* C8: a team's cache file is a hit exactly when it exists, holds a non-empty
\* JSON array and is strictly less than 604,800 seconds old (a hit at 6 days,
\* a miss at exactly 7 days and at 8 days); on a hit scrape_team_history
\* returns the cached records with no URL lookup and no request, on a miss
\* it goes on to scrape the team again.
C8_CacheFreshness ==
    \A t \in Consulted :
        LET k == task[t]
            hit == k.trace[1] = "cache_hit"
            records == k.seen.kind = "array" /\ Len(k.seen.data) > 0
        IN  /\ hit <=> Honoured(k.seen, now)
            /\ records /\ now - k.seen.mtime = 6 * SecondsPerDay => hit
            /\ records /\ now - k.seen.mtime = 7 * SecondsPerDay => ~hit
            /\ records /\ now - k.seen.mtime = 8 * SecondsPerDay => ~hit
            /\ hit /\ k.phase = 1 =>
                 /\ k.trace = <<"cache_hit">>
                 /\ k.pc \in {"returned", "collected"}
                 /\ k.df = k.seen.data
                 /\ t \notin team_urls
                 /\ cache[get_cache_path(t)] = k.seen
            /\ ~hit =>
                 \/ k.pc = "find_url" /\ k.trace = <<"cache_miss">>
                 \/ /\ Len(k.trace) >= 2
                    /\ k.trace[2] \in UrlSteps
                    /\ k.trace[2] # "url_none" =>
                         \/ k.pc = "detailed" /\ Len(k.trace) = 2
                         \/ /\ Len(k.trace) >= 3
                            /\ k.trace[3] \in {"detailed_rows", "detailed_empty",
                                               "detailed_raised"}

\* A cache of records exactly 7 days old was refused and the team was scraped
\* again, and the new records replaced the file.
C8_Witness ==
    \E t \in Consulted :
        /\ task[t].seen.kind = "array" /\ Len(task[t].seen.data) > 0
        /\ now - task[t].seen.mtime = CacheMaxAge
        /\ task[t].trace[1] = "cache_miss"
        /\ task[t].pc = "returned"
        /\ task[t].df # <<>>
        /\ cache[get_cache_path(t)].mtime = now

\* A cache of records 6 days old was returned as it is.
C8_WitnessHit ==
    \E t \in Consulted :
        /\ now - task[t].seen.mtime = 6 * SecondsPerDay
        /\ task[t].trace = <<"cache_hit">>
        /\ task[t].pc = "returned"

\* C9: after a miss with a URL, scrape_team_history tries the detailed scrape
\* first and the basic scrape only when the detailed one raised or returned
\* nothing; records of either are written to the cache and returned; and
\* whenever scrape_team_history returns an empty table the team is in the
\* failed set at that moment.
C9_DetailedThenBasic ==
    \A t \in DOMAIN task :
        LET k == task[t]
        IN  k.phase = 1 =>
              /\ \A i \in 1..Len(k.trace) :
                     /\ k.trace[i] \in {"detailed_rows", "detailed_empty",
                                        "detailed_raised"} =>
                            i > 1 /\ k.trace[i - 1] \in {"url_known", "url_found"}
                     /\ k.trace[i] \in {"basic_rows", "basic_empty",
                                        "basic_raised"} =>
                            i > 1 /\ k.trace[i - 1] \in {"detailed_empty",
                                                         "detailed_raised"}
              /\ /\ k.pc = "returned"
                 /\ k.trace[Len(k.trace)] \in {"detailed_rows", "basic_rows"}
                 => /\ k.df # <<>>
                    /\ cache[get_cache_path(t)] =
                           [kind |-> "array", mtime |-> now, data |-> k.df]
              /\ k.pc = "returned" /\ k.df = <<>> => t \in failed_teams

\* C10: with retry_failed set, exactly the teams that failed the first pass
\* are retried, each once and only after every first-pass task has finished,
\* with the basic scrape only, on a pool of max(1, max_workers div 2) workers;
\* teams that succeeded are never retried and there is no third pass.
C10_RetryOnce ==
    params.retry_failed =>
      /\ Cardinality(Running(2)) <=
             (IF params.max_workers \div 2 > 1 THEN params.max_workers \div 2
              ELSE 1)
      /\ \A t \in DOMAIN task :
           LET k == task[t]
           IN  /\ k.phase \in {1, 2}
               /\ k.starts <= k.phase
               /\ k.phase = 2 =>
                    /\ k.first \in {"empty", "raised"}
                    /\ \A u \in DOMAIN task :
                           task[u].first # "none" /\ task[u].starts >= 1
                    /\ \E i \in 1..Len(k.trace) :
                         /\ k.trace[i] = "retry"
                         /\ \A j \in 1..Len(k.trace) :
                              /\ j < i => k.trace[j] # "retry"
                              /\ j > i => k.trace[j] \in
                                     (UrlSteps \cup {"basic_rows", "basic_empty",
                                                     "basic_raised"})
               /\ k.first = "rows" => k.phase = 1 /\ k.starts = 1
               /\ spc \in {"retry", "finished"} =>
                    (k.phase = 2 <=> k.first \in {"empty", "raised"})
               /\ spc = "finished" => k.starts = k.phase

\* Both teams failed the first pass on a pool of two workers; the retry pool
\* of one worker is busy with one of them while the other waits.
C10_Witness ==
    /\ params.retry_failed
    /\ params.max_workers >= 2
    /\ spc = "retry"
    /\ \E t, u \in DOMAIN task :
         /\ t # u
         /\ task[t].phase = 2 /\ task[t].pc = "basic"
         /\ task[u].phase = 2 /\ task[u].pc = "queued"

\* How the last attempt of a collected task ended.
LastStep(t) == task[t].trace[Len(task[t].trace)]
Raised(t) == LastStep(t) \in {"raised"} \/ (task[t].phase = 2 /\ LastStep(t) = "basic_raised")

\* C11: scrape_teams_from_fixtures returns only after every submitted task of
\* the first pass and of the retry pass has finished or raised; a task that
\* raised is recorded as a failed team, and the tables of the other tasks
\* are collected all the same.
C11_WaitsForAllTasks ==
    /\ spc \in {"retry", "finished"} =>
           \A t \in DOMAIN task : task[t].first # "none"
    /\ spc = "finished" =>
           \A t \in DOMAIN task :
               /\ task[t].pc = "collected"
               /\ task[t].starts = task[t].phase
               /\ task[t].df # <<>> =>
                      \E i \in 1..Len(all_team_data) :
                          all_team_data[i] = [team |-> t, df |-> task[t].df]
    /\ \A t \in DOMAIN task :
           /\ task[t].pc = "collected" /\ Raised(t) /\ task[t].phase = CurrentPhase
                  => t \in failed_teams
           /\ spc = "finished" /\ Raised(t) => t \in failed_teams

\* The call has returned; one task raised and is in the failed set, the
\* other team's table is part of the result.
C11_Witness ==
    /\ spc = "finished"
    /\ \E t, u \in DOMAIN task :
         /\ t # u
         /\ task[t].pc = "collected" /\ Raised(t) /\ t \in failed_teams
         /\ task[u].df # <<>>
         /\ \E i \in 1..Len(all_team_data) : all_team_data[i].team = u
         /\ scrape_result = task[u].df

(***************************************************************************)
(* SpecPaths: scrape_teams_from_fixtures called on fixtures whose team     *)
(* names are those of its caller, on a pool of two workers.                *)
(***************************************************************************)
ManchesterUnited == <<"Manchester", "United">>
ManUnited == <<"Man", "United">>

CallerTeamNames == {Arsenal, Spurs, ManchesterUnited, ManUnited}

InitPaths ==
    /\ now = 8 * SecondsPerDay
    /\ RunIdle
    /\ FetchIdle
    /\ FnIdle
    /\ MenuIdle
    /\ pc = "idle"
    /\ env = NoWebhooks
    /\ fixtures_df = <<>>
    /\ processed_fixtures = <<>>
    /\ team_history_df = <<>>
    /\ processed_team_history = <<>>
    /\ spc = "idle"
    /\ params \in [max_workers : {2}, retry_failed : BOOLEAN]
    /\ team_list \in {names \in SUBSET CallerTeamNames : Cardinality(names) = 2}
    /\ task = <<>>
    /\ failed_teams = {}
    /\ all_team_data = <<>>
    /\ cache = [path \in {get_cache_path(t) : t \in team_list} |-> NoFile]
    /\ team_urls = {}
    /\ scrape_result = <<>>

SpecPaths == InitPaths /\ [][NextScrape]_vars

MaxFetchDay == 1

FetchDays == 0..MaxFetchDay

LowerOf ==
    "A" :> "a" @@ "B" :> "b" @@ "C" :> "c" @@ "D" :> "d" @@ "E" :> "e" @@
    "F" :> "f" @@ "G" :> "g" @@ "H" :> "h" @@ "I" :> "i" @@ "J" :> "j" @@
    "K" :> "k" @@ "L" :> "l" @@ "M" :> "m" @@ "N" :> "n" @@ "O" :> "o" @@
    "P" :> "p" @@ "Q" :> "q" @@ "R" :> "r" @@ "S" :> "s" @@ "T" :> "t" @@
    "U" :> "u" @@ "V" :> "v" @@ "W" :> "w" @@ "X" :> "x" @@ "Y" :> "y" @@
    "Z" :> "z"

\* str.lower()
RECURSIVE lower(_)
lower(str) ==
    IF str = "" THEN ""
    ELSE LET c == SubSeq(str, 1, 1)
         IN  (IF c \in DOMAIN LowerOf THEN LowerOf[c] ELSE c)
                 \o lower(SubSeq(str, 2, Len(str)))

\* Python's `a in b` on strings.
Contains(a, b) ==
    \E i \in 1..(Len(b) - Len(a) + 1) : SubSeq(b, i, i + Len(a) - 1) = a

\* config.LEAGUES, and a configuration of one league.
LEAGUES ==
    << [name |-> "Premier League", country |-> "England"],
       [name |-> "La Liga", country |-> "Spain"],
       [name |-> "Bundesliga", country |-> "Germany"],
       [name |-> "Serie A", country |-> "Italy"],
       [name |-> "Ligue 1", country |-> "France"],
       [name |-> "Champions League", country |-> "Europe"] >>

PremierLeagueOnly == << [name |-> "Premier League", country |-> "England"] >>

UefaOnly == << [name |-> "UEFA Champions League", country |-> "Europe"] >>

\* lines 96-102 of scrape_fixtures
match_included(match, leagues) ==
    \E i \in 1..Len(leagues) :
        \/ Contains(lower(leagues[i].name), lower(match.league))
        \/ Contains(lower(leagues[i].country), lower(match.country))

\* What a tier can deliver for a date.  An event the API delivers may lack
\* a team name; the reference site's matches carry no country and no id.
ApiEvent(d) ==
    [id |-> <<"id", d>>, home_team |-> ArsenalFC, away_team |-> Chelsea,
     league |-> "Premier League", country |-> "England", has_country |-> TRUE,
     has_id |-> TRUE, kickoff_time |-> "15:00"]

NamelessEvent(d) == [ApiEvent(d) EXCEPT !.home_team = <<>>]

BrowserEvent(d) ==
    [ApiEvent(d) EXCEPT !.id = <<"id", 10 + d>>, !.home_team = Tottenham,
                        !.league = "Champions League",
                        !.country = "International"]

FbrefMatch(d) ==
    [id |-> <<>>, home_team |-> Tottenham, away_team |-> Chelsea,
     league |-> "La Liga", country |-> "", has_country |-> FALSE,
     has_id |-> FALSE, kickoff_time |-> "15:00"]

TierResults(d) ==
    [api : {<<>>, <<NamelessEvent(d)>>, <<ApiEvent(d)>>},
     browser : {<<>>, <<BrowserEvent(d)>>},
     fbref : {<<>>, <<FbrefMatch(d)>>}]

\* parse_events: an event without both team names is skipped.
parse_events(events) ==
    SelectIdx(events, {i \in 1..Len(events) :
                          events[i].home_team # <<>> /\ events[i].away_team # <<>>})

\* generate_match_id(date_str, home_team, away_team)
generate_match_id(date, home_team, away_team) == <<date, home_team, away_team>>

\* match.get('id', generate_match_id(...)) and match.get('country', '')
MatchOf(date, match) ==
    [match_id |-> IF match.has_id THEN match.id
                  ELSE generate_match_id(date, match.home_team, match.away_team),
     date |-> date,
     home_team |-> match.home_team,
     away_team |-> match.away_team,
     league |-> match.league,
     country |-> IF match.has_country THEN match.country ELSE "",
     kickoff_time |-> match.kickoff_time]

\* The matches of all_matches_by_date, date by date.
AllMatches(by_date) ==
    Concat([i \in 1..Len(by_date) |->
               [j \in 1..Len(by_date[i].matches) |->
                   MatchOf(by_date[i].date, by_date[i].matches[j])]])

\* lines 88-128 of scrape_fixtures: the fixtures of the matches that are in
\* one of the leagues.
FixturesList(by_date, leagues) ==
    LET all == AllMatches(by_date)
        kept == SelectIdx(all, {i \in 1..Len(all) : match_included(all[i], leagues)})
    IN  [i \in 1..Len(kept) |-> ToFixture(kept[i])]

\* scrape_fixtures up to the loop over the dates: the date list is built and
\* the browser session set up.
StartFetch ==
    /\ fpc = "idle"
    /\ fpc' = "dates"
    /\ tried' = <<>>
    /\ all_matches_by_date' = <<>>
    /\ UNCHANGED <<now, date_range, provider>>
    /\ UNCHANGED <<fnVars, menuVars, scrapeVars, runVars>>

\* The date the loop of fetch_matches_for_date_range comes to next.
CurrentDate == date_range.start_date + Len(tried)

\* One round of the loop, lines 592-628.
ProcessDate ==
    /\ fpc = "dates"
    /\ CurrentDate <= date_range.end_date
    /\ LET has == provider[CurrentDate]
           from_api == has.api
           events == IF from_api = <<>> THEN has.browser ELSE from_api
           parsed == IF events = <<>> THEN <<>> ELSE parse_events(events)
           matches == IF parsed = <<>> THEN has.fbref ELSE parsed
       IN  /\ tried' = Append(tried,
                  [date |-> CurrentDate,
                   tiers |-> <<"api">>
                       \o (IF from_api = <<>> THEN <<"browser">> ELSE <<>>)
                       \o (IF parsed = <<>> THEN <<"fbref">> ELSE <<>>)])
           /\ IF matches # <<>>
              THEN /\ all_matches_by_date' =
                          Append(all_matches_by_date,
                                 [date |-> CurrentDate, matches |-> matches])
                   /\ written' = written \cup {"matches_date.csv"}
              ELSE UNCHANGED <<all_matches_by_date, written>>
    /\ UNCHANGED <<now, fpc, date_range, provider>>
    /\ UNCHANGED <<fnVars, menuVars, scrapeVars>>
    /\ UNCHANGED <<pc, log, fixtures_df, processed_fixtures, team_history_df,
                   processed_team_history, metrics_df, combined_data, result,
                   exc, propagated, stats_file, env, posts>>

\* After the loop: the combined file of the fetch, then lines 83-155 of
\* scrape_fixtures.  With no fixture in a configured league the raw file is
\* written and the statistics line raises, so the empty table is returned.
ReturnFixtures ==
    /\ fpc = "dates"
    /\ CurrentDate > date_range.end_date
    /\ fpc' = "returned"
    /\ IF all_matches_by_date = <<>>
       THEN /\ fixtures_df' = <<>>
            /\ UNCHANGED written
       ELSE /\ fixtures_df' = FixturesList(all_matches_by_date, date_range.leagues)
            /\ written' = written \cup {"all_matches.csv", "raw_fixtures.csv"}
    /\ UNCHANGED <<now, date_range, provider, tried, all_matches_by_date>>
    /\ UNCHANGED <<fnVars, menuVars, scrapeVars>>
    /\ UNCHANGED <<pc, log, processed_fixtures, team_history_df,
                   processed_team_history, metrics_df, combined_data, result,
                   exc, propagated, stats_file, env, posts>>

NextFixtures == StartFetch \/ ProcessDate \/ ReturnFixtures

InitFixtures ==
    /\ now = SecondsPerDay
    /\ RunIdle
    /\ ScraperIdle
    /\ FnIdle
    /\ MenuIdle
    /\ pc = "idle"
    /\ env = NoWebhooks
    /\ fixtures_df = <<>>
    /\ processed_fixtures = <<>>
    /\ team_history_df = <<>>
    /\ processed_team_history = <<>>
    /\ fpc = "idle"
    /\ date_range \in [start_date : FetchDays, end_date : FetchDays,
                       leagues : {LEAGUES, PremierLeagueOnly, UefaOnly}]
    /\ \E results \in [FetchDays -> UNION {TierResults(d) : d \in FetchDays}] :
           /\ \A d \in FetchDays : results[d] \in TierResults(d)
           /\ provider = results
    /\ tried = <<>>
    /\ all_matches_by_date = <<>>

SpecFixtures == InitFixtures /\ [][NextFixtures]_vars

(***************************************************************************)
(* Claims about the fixtures scraper.                                      *)
(***************************************************************************)
Tiers(i) == Range(tried[i].tiers)

\* C13: the date-range fetch processes every date of the inclusive range
\* once, in increasing order; per date the API is tried first, the rendered
\* page exactly when the API returned no events, the reference site exactly
\* when neither of them produced events; a date for which every tier has
\* nothing contributes no match and the next date is processed.
C13_TierOrder ==
    /\ \A i \in 1..Len(tried) :
         LET d == tried[i].date
         IN  /\ d = date_range.start_date + i - 1
             /\ d <= date_range.end_date
             /\ tried[i].tiers[1] = "api"
             /\ "browser" \in Tiers(i) <=> provider[d].api = <<>>
             /\ "fbref" \in Tiers(i) <=>
                    provider[d].api = <<>> /\ provider[d].browser = <<>>
             /\ provider[d] = [api |-> <<>>, browser |-> <<>>, fbref |-> <<>>] =>
                    \A j \in 1..Len(all_matches_by_date) :
                        all_matches_by_date[j].date # d
    /\ fpc = "returned" =>
         Len(tried) = (IF date_range.end_date >= date_range.start_date
                       THEN date_range.end_date - date_range.start_date + 1
                       ELSE 0)

\* One string contains the other, whichever way round, letter case ignored.
EitherContains(a, b) ==
    Contains(lower(a), lower(b)) \/ Contains(lower(b), lower(a))

\* C14: scrape_fixtures keeps a collected match exactly when, for some
\* configured league, the names of the two leagues or their countries
\* contain one another, letter case ignored; every other match is left out
\* of the fixture table.
C14_LeagueFilter ==
    fpc = "returned" =>
        LET all == AllMatches(all_matches_by_date)
        IN  \A i \in 1..Len(all) :
              (\E j \in 1..Len(fixtures_df) :
                   fixtures_df[j].match_id = all[i].match_id)
              <=> \E k \in 1..Len(date_range.leagues) :
                      \/ EitherContains(all[i].league, date_range.leagues[k].name)
                      \/ EitherContains(all[i].country,
                                        date_range.leagues[k].country)

\* C15: a run whose fixture scrape yields no fixture, or whose
\* process_fixtures yields no row, ends early and has written nothing but
\* log lines: no pipeline_stats.json, no output CSV, no raw and no processed
\* fixture file.
C15_EarlyExitWritesNothing ==
    pc = "done" /\ (EmptyScrape \/ EmptyProcessed) =>
        /\ written = {}
        /\ ~stats_file.exists

\* The run reached its end banner: it succeeded, or failed and was caught.
RunEnded == pc = "done" /\ "END" \in Range(log)

\* C16: when a run ends in success or in a caught failure, one notification
\* is posted if SLACK_WEBHOOK_URL is set, or else if DISCORD_WEBHOOK_URL is
\* set; with neither set nothing is posted.  A run with only
\* DISCORD_WEBHOOK_URL set still sends its notification.
C16_NotificationFallback ==
    RunEnded =>
        /\ env.slack \/ env.discord =>
               posts \in {<<"completed">>, <<"failed">>}
        /\ ~env.slack /\ ~env.discord => posts = <<>>
        /\ posts = <<"completed">> <=>
               (env.slack \/ env.discord) /\ exc = "none"

\* The teams whose history the scrape delivered.
ScrapedTeams == {team_history_df[i].team : i \in 1..Len(team_history_df)}

\* Distinct home-team names plus distinct away-team names of the processed
\* fixtures.
TeamNameCount ==
    Cardinality({processed_fixtures[i].home_team :
                    i \in 1..Len(processed_fixtures)})
      + Cardinality({processed_fixtures[i].away_team :
                        i \in 1..Len(processed_fixtures)})

\* C17: the success_rate of pipeline_stats.json is 100 times the number of
\* teams whose history was scraped over the number of distinct home-team
\* names plus distinct away-team names of the processed fixtures, and so it
\* is never above 100%.
C17_SuccessRate ==
    pc = "done" /\ stats_file.exists /\ ~stats_file.success_rate.zero =>
        /\ stats_file.success_rate.tenths =
               PercentTenths(Cardinality(ScrapedTeams), TeamNameCount)
        /\ stats_file.success_rate.tenths <= 1000

(***************************************************************************)
(* SpecMetrics: aggregate_team_stats applied to every history table within *)
(* the bounds, with a window of 90 and of 40 days.                         *)
(***************************************************************************)
MaxMetricRows == 3
MetricDays == {0, 40, 95}
MetricWindows == {WindowDays, 40}

MetricRecords ==
    {[team |-> t, date |-> d, goals_for |-> g.goals_for, result |-> g.result] :
        t \in {Tottenham, Chelsea}, d \in MetricDays,
        g \in {[goals_for |-> 1, result |-> "W"],
               [goals_for |-> 2, result |-> "D"],
               [goals_for |-> 3, result |-> "L"]}}

InitMetrics ==
    /\ fn_pc = "call"
    /\ fn_arg \in [fn : {"aggregate_team_stats"},
                   team_history_df : SeqsUpTo(MetricRecords, MaxMetricRows),
                   window_days : MetricWindows]
    /\ fn_ret = [fn |-> "none"]
    /\ MenuIdle
    /\ now = 0
    /\ pc = "idle"
    /\ fixtures_df = <<>>
    /\ team_history_df = <<>>
    /\ processed_fixtures = <<>>
    /\ processed_team_history = <<>>
    /\ env = NoWebhooks
    /\ RunIdle
    /\ FetchIdle
    /\ ScraperIdle

ApplyAggregateTeamStats ==
    /\ fn_pc = "call"
    /\ fn_arg.fn = "aggregate_team_stats"
    /\ fn_ret' = [fn |-> "aggregate_team_stats",
                  value |-> aggregate_team_stats(fn_arg.team_history_df,
                                                 fn_arg.window_days)]
    /\ fn_pc' = "done"
    /\ UNCHANGED <<now, fn_arg, menuVars, fetchVars, scrapeVars, runVars>>

NextMetrics == ApplyAggregateTeamStats

SpecMetrics == InitMetrics /\ [][NextMetrics]_vars

\* aggregate_team_stats has returned.
Aggregated == fn_pc = "done" /\ fn_ret.fn = "aggregate_team_stats"

\* The records of the table h that belong to the team of record k and are
\* dated in the window of w days ending at the date of record k.
InWindow(h, k, w) ==
    {j \in 1..Len(h) : /\ h[j].team = h[k].team
                       /\ h[j].date > h[k].date - w
                       /\ h[j].date <= h[k].date}

\* Those of them that are dated before record k, or on its date and not
\* after it in the table.
InWindowUpTo(h, k, w) ==
    {j \in InWindow(h, k, w) : h[j].date < h[k].date \/ j <= k}

\* The metrics row is that of record k of h, computed over the records c.
RowOver(row, h, k, c) ==
    /\ row.team = h[k].team
    /\ row.date = h[k].date
    /\ row.total_goals_for = SumOver([j \in 1..Len(h) |-> h[j].goals_for], c)
    /\ row.win_ratio =
           [num |-> SumOver([j \in 1..Len(h) |-> ResultHalves(h[j].result)], c),
            den |-> 2 * Cardinality(c)]

\* C18: with a window of W days, the metrics row of team t at date d
\* aggregates exactly t's own records dated later than d - W and not after
\* d: total_goals_for is their sum of goals_for and win_ratio their mean of
\* W=1, D=0.5, L=0.  No row takes anything from another team or from outside
\* its window: there is one row per record, and each aggregates the records
\* of its window up to its own record (where a team has several records on
\* one date, the row of the last of them is the one over the whole window).
C18_WindowExactly ==
    Aggregated =>
        LET h == fn_arg.team_history_df
            w == fn_arg.window_days
            stats == fn_ret.value
        IN  /\ Len(stats) = Len(h)
            /\ \A k \in 1..Len(h) :
                   \E i \in 1..Len(stats) :
                       RowOver(stats[i], h, k, InWindow(h, k, w))
            /\ \A i \in 1..Len(stats) :
                   \E k \in 1..Len(h) :
                       RowOver(stats[i], h, k, InWindowUpTo(h, k, w))

\* Matches of one team at days 0, 40, 95 with goals_for 1, 2, 3 and W = 90:
\* total_goals_for at day 95 is 5.
C18_Witness ==
    /\ Aggregated
    /\ fn_arg.window_days = 90
    /\ fn_arg.team_history_df =
           <<[team |-> Tottenham, date |-> 0, goals_for |-> 1, result |-> "W"],
             [team |-> Tottenham, date |-> 40, goals_for |-> 2, result |-> "D"],
             [team |-> Tottenham, date |-> 95, goals_for |-> 3, result |-> "L"]>>
    /\ fn_ret.value[3].date = 95
    /\ fn_ret.value[3].total_goals_for = 5
    /\ fn_ret.value[3].win_ratio = [num |-> 1, den |-> 4]

(***************************************************************************)
(* SpecNames: normalize_team_name applied to every name of the alias       *)
(* table, key or value, to three names outside it, and to each of them     *)
(* with a trailing FC, CF or AFC.                                          *)
(***************************************************************************)
AliasValues == {TEAM_NAME_MAPPING[k] : k \in DOMAIN TEAM_NAME_MAPPING}

InputNames ==
    Range(PythonOrder)
      \cup {n \o <<x>> : n \in Range(PythonOrder) \ {<<>>}, x \in {"FC", "CF", "AFC"}}

InitNames ==
    /\ fn_pc = "call"
    /\ fn_arg \in [fn : {"normalize_team_name"}, name : InputNames]
    /\ fn_ret = [fn |-> "none"]
    /\ MenuIdle
    /\ now = 0
    /\ pc = "idle"
    /\ fixtures_df = <<>>
    /\ team_history_df = <<>>
    /\ processed_fixtures = <<>>
    /\ processed_team_history = <<>>
    /\ env = NoWebhooks
    /\ RunIdle
    /\ FetchIdle
    /\ ScraperIdle

ApplyNormalizeTeamName ==
    /\ fn_pc = "call"
    /\ fn_arg.fn = "normalize_team_name"
    /\ fn_ret' = [fn |-> "normalize_team_name",
                  value |-> normalize_team_name(fn_arg.name)]
    /\ fn_pc' = "done"
    /\ UNCHANGED <<now, fn_arg, menuVars, fetchVars, scrapeVars, runVars>>

NextNames == ApplyNormalizeTeamName

SpecNames == InitNames /\ [][NextNames]_vars

\* C19: normalize_team_name leaves every value of the alias table as it is,
\* so that normalizing a key twice gives what normalizing it once gives; and
\* it leaves every name that is no key and ends in no FC, CF or AFC as it is.
C19_NormalizedIsFixedPoint ==
    fn_pc = "done" /\ fn_ret.fn = "normalize_team_name" =>
        /\ fn_arg.name \in AliasValues => fn_ret.value = fn_arg.name
        /\ fn_arg.name \in DOMAIN TEAM_NAME_MAPPING =>
               normalize_team_name(fn_ret.value) = fn_ret.value
        /\ fn_arg.name \notin DOMAIN TEAM_NAME_MAPPING
             /\ StripSuffix(fn_arg.name) = fn_arg.name =>
               fn_ret.value = fn_arg.name

(***************************************************************************)
(* normalize_date on strings.  A date string is a string of characters; a  *)
(* calendar date is a record of year, month and day.  normalize_date(d)    *)
(* above is this function on the day numbers the tables of the model use.  *)
(***************************************************************************)
\* The result of a parse: nothing (None, or a ValueError), or a value.
Unparsed == [parsed |-> FALSE]
Parsed(v) == [parsed |-> TRUE, value |-> v]

DigitChars == "0123456789"
Digit(v) == SubSeq(DigitChars, v + 1, v + 1)

MonthAbbr == <<"Jan", "Feb", "Mar", "Apr", "May", "Jun",
               "Jul", "Aug", "Sep", "Oct", "Nov", "Dec">>

\* Zero-padded decimal renderings, as %d, %m and %Y print them.
TwoDigits(n) == Digit(n \div 10) \o Digit(n % 10)
FourDigits(n) == TwoDigits(n \div 100) \o TwoDigits(n % 100)

\* The formats of lines 53-57, in their order.  A format is the sequence of
\* its directives (Y, m, d, b) and of the literal text between them.
formats ==
    << <<"Y", "-", "m", "-", "d">>,       \* %Y-%m-%d
       <<"Y", "m", "d">>,                 \* %Y%m%d
       <<"d", "/", "m", "/", "Y">>,       \* %d/%m/%Y
       <<"m", "/", "d", "/", "Y">>,       \* %m/%d/%Y
       <<"d", "-", "m", "-", "Y">>,       \* %d-%m-%Y
       <<"m", "-", "d", "-", "Y">>,       \* %m-%d-%Y
       <<"d", ".", "m", ".", "Y">>,       \* %d.%m.%Y
       <<"m", ".", "d", ".", "Y">>,       \* %m.%d.%Y
       <<"d", "m", "Y">>,                 \* %d%m%Y
       <<"m", "d", "Y">>,                 \* %m%d%Y
       <<"b", " ", "d", ", ", "Y">>,      \* %b %d, %Y
       <<"d", " ", "b", " ", "Y">> >>     \* %d %b %Y

output_format == formats[1]

IsLeap(y) == y % 4 = 0 /\ (y % 100 # 0 \/ y % 400 = 0)

DaysIn(y, m) ==
    CASE m \in {4, 6, 9, 11} -> 30
      [] m = 2 -> IF IsLeap(y) THEN 29 ELSE 28
      [] OTHER -> 31

\* datetime.strftime
RECURSIVE strftime(_, _)
strftime(dt, fmt) ==
    IF fmt = <<>> THEN ""
    ELSE LET it == Head(fmt)
             text == CASE it = "Y" -> FourDigits(dt.y)
                       [] it = "m" -> TwoDigits(dt.m)
                       [] it = "d" -> TwoDigits(dt.d)
                       [] it = "b" -> MonthAbbr[dt.m]
                       [] OTHER -> it
         IN  text \o strftime(dt, Tail(fmt))

\* The decimal value of the n characters of str from pos on, or -1 when
\* they are not n digits.
RECURSIVE NumberAt(_, _, _)
NumberAt(str, pos, n) ==
    IF n = 0 THEN 0
    ELSE IF pos + n - 1 > Len(str) THEN -1
    ELSE LET c == SubSeq(str, pos + n - 1, pos + n - 1)
             rest == NumberAt(str, pos, n - 1)
         IN  IF rest = -1 \/ ~(\E v \in 0..9 : Digit(v) = c) THEN -1
             ELSE 10 * rest + (CHOOSE v \in 0..9 : Digit(v) = c)

\* The ways the item it of a format reads str at pos, as <<value, length>>:
\* %Y is four digits, %m is 01-12 or 1-9, %d is 01-31 or 1-9, %b a month
\* abbreviation, and literal text reads itself.
FieldReads(str, pos, it) ==
    CASE it = "Y" ->
           {<<NumberAt(str, pos, 4), 4>>} \ {<<-1, 4>>}
      [] it = "m" ->
           {<<v, 2>> : v \in {NumberAt(str, pos, 2)} \cap 1..12}
             \cup {<<v, 1>> : v \in {NumberAt(str, pos, 1)} \cap 1..9}
      [] it = "d" ->
           {<<v, 2>> : v \in {NumberAt(str, pos, 2)} \cap 1..31}
             \cup {<<v, 1>> : v \in {NumberAt(str, pos, 1)} \cap 1..9}
      [] it = "b" ->
           {<<v, 3>> : v \in {k \in 1..12 : /\ pos + 2 <= Len(str)
                                            /\ SubSeq(str, pos, pos + 2) = MonthAbbr[k]}}
      [] OTHER ->
           IF pos + Len(it) - 1 <= Len(str)
              /\ SubSeq(str, pos, pos + Len(it) - 1) = it
           THEN {<<0, Len(it)>>}
           ELSE {}

\* The readings of the whole of str from pos on by the items of a format.
RECURSIVE Readings(_, _, _)
Readings(str, pos, items) ==
    IF items = <<>>
    THEN IF pos = Len(str) + 1 THEN {[y |-> 1900, m |-> 1, d |-> 1]} ELSE {}
    ELSE LET it == Head(items)
             put(r, v) == CASE it = "Y" -> [r EXCEPT !.y = v]
                            [] it = "m" -> [r EXCEPT !.m = v]
                            [] it = "b" -> [r EXCEPT !.m = v]
                            [] it = "d" -> [r EXCEPT !.d = v]
                            [] OTHER -> r
         IN  UNION {{put(r, f[1]) : r \in Readings(str, pos + f[2], Tail(items))} :
                       f \in FieldReads(str, pos, it)}

\* datetime.strptime: the date the format reads in the string, or nothing for
\* the ValueError of a string that does not match or of a day the month
\* does not have.
strptime(str, fmt) ==
    LET rs == Readings(str, 1, fmt)
    IN  IF rs = {} THEN Unparsed
        ELSE LET r == CHOOSE x \in rs : TRUE
             IN  IF r.d <= DaysIn(r.y, r.m) THEN Parsed(r) ELSE Unparsed

\* pd.to_datetime on the strings no format reads: a year-first date with
\* slashes is read by the library's general parser, free text is not.
to_datetime(str) == strptime(str, <<"Y", "/", "m", "/", "d">>)

\* lines 59-64: the first format of the list that reads the string decides.
RECURSIVE TryFormats(_, _)
TryFormats(str, k) ==
    IF k > Len(formats) THEN Unparsed
    ELSE LET dt == strptime(str, formats[k])
         IN  IF dt # Unparsed THEN dt ELSE TryFormats(str, k + 1)

normalize_date_str(date_str) ==
    IF date_str = "" THEN Unparsed
    ELSE LET dt == TryFormats(date_str, 1)
         IN  IF dt # Unparsed THEN Parsed(strftime(dt.value, output_format))
             ELSE LET fallback == to_datetime(date_str)
                  IN  IF fallback # Unparsed
                      THEN Parsed(strftime(fallback.value, output_format))
                      ELSE Unparsed

(***************************************************************************)
(* SpecDates: normalize_date applied to every date of two years rendered   *)
(* in each of the twelve formats, and to strings none of them reads.       *)
(***************************************************************************)
Years == {2023, 2024}

CalendarDates ==
    {dt \in [y : Years, m : 1..12, d : 1..31] : dt.d <= DaysIn(dt.y, dt.m)}

\* Strings that none of the twelve formats reads.
OtherStrings == {"not-a-date", "2024/05/01", "31/02/2024"}

\* rendered names the date and the format the caller rendered date_str
\* from; format 0 is a string the caller did not render from a date.
InitDates ==
    /\ fn_pc = "call"
    /\ \/ \E dt \in CalendarDates, k \in 1..Len(formats) :
             fn_arg = [fn |-> "normalize_date",
                       date_str |-> strftime(dt, formats[k]),
                       rendered |-> [date |-> dt, format |-> k]]
       \/ \E str \in OtherStrings :
             fn_arg = [fn |-> "normalize_date",
                       date_str |-> str,
                       rendered |-> [date |-> [y |-> 0, m |-> 0, d |-> 0],
                                     format |-> 0]]
    /\ fn_ret = [fn |-> "none"]
    /\ MenuIdle
    /\ now = 0
    /\ pc = "idle"
    /\ fixtures_df = <<>>
    /\ team_history_df = <<>>
    /\ processed_fixtures = <<>>
    /\ processed_team_history = <<>>
    /\ env = NoWebhooks
    /\ RunIdle
    /\ FetchIdle
    /\ ScraperIdle

ApplyNormalizeDate ==
    /\ fn_pc = "call"
    /\ fn_arg.fn = "normalize_date"
    /\ fn_ret' = [fn |-> "normalize_date",
                  value |-> normalize_date_str(fn_arg.date_str)]
    /\ fn_pc' = "done"
    /\ UNCHANGED <<now, fn_arg, menuVars, fetchVars, scrapeVars, runVars>>

NextDates == ApplyNormalizeDate

SpecDates == InitDates /\ [][NextDates]_vars

\* No string of the model is read in two ways by one format.
ReadingsUnique ==
    \A k \in 1..Len(formats) :
        Cardinality(Readings(fn_arg.date_str, 1, formats[k])) <= 1

\* C20: a date rendered in one of the twelve formats is normalized to that
\* same date as YYYY-MM-DD, whichever of the formats rendered it (day-first
\* "01/05/2024" and month-first "05/01/2024" both give 2024-05-01); a string
\* that no format reads gives no value.
C20_RoundTrip ==
    fn_pc = "done" /\ fn_ret.fn = "normalize_date" =>
        /\ fn_arg.rendered.format # 0 =>
               fn_ret.value =
                   Parsed(strftime(fn_arg.rendered.date, output_format))
        /\ (\A k \in 1..Len(formats) :
                strptime(fn_arg.date_str, formats[k]) = Unparsed) =>
               fn_ret.value = Unparsed

\* The columns of a table process_fixtures returns.
FixtureColumns ==
    {"match_id", "date", "home_team", "away_team", "league", "kickoff_time"}

\* C21: join_fixtures_with_team_history leaves its input tables as they
\* were: the fixtures table the caller holds, which join_data then writes to
\* upcoming_fixtures.csv, carries only the columns process_fixtures produced.
C21_JoinLeavesInputsAlone ==
    \A i \in 1..Len(processed_fixtures) :
        DOMAIN processed_fixtures[i] = FixtureColumns

(***************************************************************************)
(* SpecMenu: the example runner (examples/run_pipeline.py).  main loops    *)
(* over the menu; every selection but exit constructs one pipeline and     *)
(* runs it.  A run is recorded with what it reads from the config module   *)
(* while it runs: the output directory and the history lookback days.      *)
(***************************************************************************)
MaxSelections == 3

\* What FootballDataPipeline().run() of a selection sees in config.
RunOf(choice, cfg) ==
    [choice |-> choice,
     OUTPUT_DIR |-> cfg.OUTPUT_DIR,
     TEAM_HISTORY_DAYS |-> cfg.TEAM_HISTORY_DAYS]

MenuOpen ==
    /\ Len(choices) < MaxSelections
    /\ IF choices = <<>> THEN TRUE ELSE choices[Len(choices)] # "0"

Select(choice, cfg) ==
    /\ MenuOpen
    /\ choices' = Append(choices, choice)
    /\ config' = cfg
    /\ runs' = Append(runs, RunOf(choice, cfg))
    /\ UNCHANGED <<now, fnVars, fetchVars, scrapeVars, runVars>>

\* lines 17-27
run_basic_example == Select("1", config)

\* lines 30-51: config.TEAM_HISTORY_DAYS = 90
run_custom_dates_example ==
    Select("2", [config EXCEPT !.TEAM_HISTORY_DAYS = 90])

\* lines 54-68
run_custom_leagues_example == Select("3", config)

\* lines 71-107: config.OUTPUT_DIR = custom_output,
\* config.TEAM_HISTORY_DAYS = 180
run_full_custom_example ==
    Select("4", [config EXCEPT !.OUTPUT_DIR = "data/custom_output",
                               !.TEAM_HISTORY_DAYS = 180])

\* lines 133-134: any other input prints a message and the menu loops.
InvalidChoice ==
    /\ MenuOpen
    /\ choices' = Append(choices, "?")
    /\ UNCHANGED <<config, runs>>
    /\ UNCHANGED <<now, fnVars, fetchVars, scrapeVars, runVars>>

\* lines 130-132
ExitMenu ==
    /\ MenuOpen
    /\ choices' = Append(choices, "0")
    /\ UNCHANGED <<config, runs>>
    /\ UNCHANGED <<now, fnVars, fetchVars, scrapeVars, runVars>>

InitMenu ==
    /\ MenuIdle
    /\ now = 0
    /\ pc = "idle"
    /\ fixtures_df = <<>>
    /\ team_history_df = <<>>
    /\ processed_fixtures = <<>>
    /\ processed_team_history = <<>>
    /\ env = NoWebhooks
    /\ RunIdle
    /\ FetchIdle
    /\ FnIdle
    /\ ScraperIdle

NextMenu ==
    \/ run_basic_example
    \/ run_custom_dates_example
    \/ run_custom_leagues_example
    \/ run_full_custom_example
    \/ InvalidChoice
    \/ ExitMenu

SpecMenu == InitMenu /\ [][NextMenu]_vars

\* The parameters a selection names: its own overrides, and the defaults
\* of config.py for what it does not override.
ParametersOf(choice) ==
    CASE choice = "2" -> RunOf("2", [DefaultConfig EXCEPT !.TEAM_HISTORY_DAYS = 90])
      [] choice = "4" -> RunOf("4", [OUTPUT_DIR |-> "data/custom_output",
                                     TEAM_HISTORY_DAYS |-> 180])
      [] OTHER -> RunOf(choice, DefaultConfig)

\* C22: whatever the sequence of selections, the run of each selection uses
\* exactly the parameters of that selection: no override of the output
\* directory or of the lookback days made by an earlier selection is visible
\* to a later one.
C22_SelectionsIndependent ==
    \A i \in 1..Len(runs) : runs[i] = ParametersOf(runs[i].choice)

(***************************************************************************)
(* SpecLookback: the truncation of a season's schedule table, as the       *)
(* detailed and the basic scrape do it, on every table of distinct match   *)
(* days within the bounds, in any row order the page may have (the site    *)
(* lists a season oldest match first).                                     *)
(***************************************************************************)
MaxScheduleRows == 4
MaxLookback == 3
ScheduleDays == 0..MaxScheduleRows

ScheduleTables ==
    {t \in SeqsUpTo([date : ScheduleDays, opponent : {Chelsea}, result : {"W"},
                     goals_for : {1}], MaxScheduleRows) :
        \A i, j \in 1..Len(t) : i # j => t[i].date # t[j].date}

InitLookback ==
    /\ fn_pc = "call"
    /\ fn_arg \in [fn : {"head"}, fixtures_df : ScheduleTables,
                   lookback_matches : 1..MaxLookback]
    /\ fn_ret = [fn |-> "none"]
    /\ MenuIdle
    /\ now = 0
    /\ pc = "idle"
    /\ fixtures_df = <<>>
    /\ team_history_df = <<>>
    /\ processed_fixtures = <<>>
    /\ processed_team_history = <<>>
    /\ env = NoWebhooks
    /\ RunIdle
    /\ FetchIdle
    /\ ScraperIdle

\* team_scraper.py line 606 (detailed) and line 766 (basic).
TruncateSchedule ==
    /\ fn_pc = "call"
    /\ fn_arg.fn = "head"
    /\ fn_ret' = [fn |-> "head",
                  value |-> HeadRows(fn_arg.fixtures_df, fn_arg.lookback_matches)]
    /\ fn_pc' = "done"
    /\ UNCHANGED <<now, fn_arg, menuVars, fetchVars, scrapeVars, runVars>>

NextLookback == TruncateSchedule

SpecLookback == InitLookback /\ [][NextLookback]_vars

\* C23: of a schedule table with more than lookback_matches rows the scrape
\* keeps exactly lookback_matches rows, those with the most recent dates: no
\* kept row is older than a discarded row.
C23_KeepsMostRecent ==
    fn_pc = "done" /\ fn_ret.fn = "head"
      /\ Len(fn_arg.fixtures_df) > fn_arg.lookback_matches =>
        /\ Len(fn_ret.value) = fn_arg.lookback_matches
        /\ Range(fn_ret.value) \subseteq Range(fn_arg.fixtures_df)
        /\ \A kept \in Range(fn_ret.value) :
               \A discarded \in Range(fn_arg.fixtures_df) \ Range(fn_ret.value) :
                   kept.date >= discarded.date

\* The teams whose table is part of the combined result.
Contributed == {all_team_data[i].team : i \in 1..Len(all_team_data)}

MaxCalls == 3

\* What scrape_team_history returns when the cache has nothing fresh:
\* lines 841-877.  found: _find_team_url found a URL; detailed and basic:
\* what the two scrapes do ("rows", "empty", "raised").
ScrapedTable(team_name, lookback_matches, found, detailed, basic) ==
    IF ~found THEN <<>>
    ELSE IF detailed = "rows" THEN TeamRecords(team_name, lookback_matches)
    ELSE IF basic = "rows" THEN TeamRecords(team_name, lookback_matches)
    ELSE <<>>

InitCalls ==
    /\ fn_pc = "idle"
    /\ fn_arg = [fn |-> "scrape_team_history", team_name |-> Arsenal,
                 lookback_matches |-> 1, call |-> 0]
    /\ fn_ret = [fn |-> "none"]
    /\ cache = [path \in {get_cache_path(Arsenal)} |-> NoFile]
    /\ now = 0
    /\ MenuIdle
    /\ RunIdle
    /\ FetchIdle
    /\ pc = "idle"
    /\ env = NoWebhooks
    /\ fixtures_df = <<>>
    /\ processed_fixtures = <<>>
    /\ team_history_df = <<>>
    /\ processed_team_history = <<>>
    /\ spc = "idle"
    /\ params = [max_workers |-> 1, retry_failed |-> FALSE]
    /\ team_list = {}
    /\ task = <<>>
    /\ failed_teams = {}
    /\ all_team_data = <<>>
    /\ team_urls = {}
    /\ scrape_result = <<>>

\* scrape_team_history, lines 829-877, called elapsed seconds after the
\* call before it.
CallScrapeTeamHistory ==
    /\ fn_arg.call < MaxCalls
    /\ \E n \in 1..MaxLookback, elapsed \in {0, 8 * SecondsPerDay},
          found \in BOOLEAN, detailed \in {"rows", "empty", "raised"},
          basic \in {"rows", "empty", "raised"} :
         LET team_name == fn_arg.team_name
             cached_df == load_from_cache(cache[get_cache_path(team_name)], now')
             hit == cached_df.some /\ cached_df.df # <<>>
             df == ScrapedTable(team_name, n, found, detailed, basic)
         IN  /\ now' = now + elapsed
             /\ fn_arg' = [fn_arg EXCEPT !.lookback_matches = n, !.call = @ + 1]
             /\ fn_ret' = [fn |-> "scrape_team_history",
                           cached |-> hit,
                           value |-> IF hit THEN cached_df.df ELSE df]
             /\ cache' = IF hit THEN cache
                         ELSE save_to_cache(cache, team_name, df, now')
             /\ team_urls' = IF ~hit /\ found THEN team_urls \cup {team_name}
                             ELSE team_urls
             /\ failed_teams' =
                    IF ~hit /\ (~found \/ (detailed # "rows" /\ basic = "raised"))
                    THEN failed_teams \cup {team_name}
                    ELSE failed_teams
    /\ fn_pc' = "done"
    /\ UNCHANGED <<spc, params, team_list, task, all_team_data, scrape_result>>
    /\ UNCHANGED <<menuVars, fetchVars, runVars>>

NextCalls == CallScrapeTeamHistory

SpecCalls == InitCalls /\ [][NextCalls]_vars

\* C25: every call scrape_team_history(team, lookback_matches = n) returns
\* a table of at most n rows, whatever calls came before it, also when the
\* table comes from a cache entry an earlier call wrote.
C25_AtMostLookbackRows ==
    fn_pc = "done" /\ fn_ret.fn = "scrape_team_history" =>
        Len(fn_ret.value) <= fn_arg.lookback_matches

(***************************************************************************)
(* SpecMatchIds: the match_id scrape_fixtures gives to two collected       *)
(* matches that differ in date, home team or away team.  Names and dates   *)
(* are strings here, as generate_match_id works on their characters.       *)
(***************************************************************************)
\* re.sub(r'[^a-zA-Z0-9]', '', name.lower())
RECURSIVE Alnum(_)
Alnum(str) ==
    IF str = "" THEN ""
    ELSE LET c == SubSeq(str, 1, 1)
         IN  (IF Contains(c, "abcdefghijklmnopqrstuvwxyz0123456789") THEN c ELSE "")
                 \o Alnum(SubSeq(str, 2, Len(str)))

\* date.replace('-', '')
RECURSIVE WithoutDashes(_)
WithoutDashes(str) ==
    IF str = "" THEN ""
    ELSE LET c == SubSeq(str, 1, 1)
         IN  (IF c = "-" THEN "" ELSE c) \o WithoutDashes(SubSeq(str, 2, Len(str)))

\* generate_match_id on strings: f"{date_part}_{home}_{away}"
generate_match_id_str(date, home_team, away_team) ==
    WithoutDashes(date) \o "_" \o Alnum(lower(home_team)) \o "_"
        \o Alnum(lower(away_team))

\* The matches a fetch can collect: an event of the API or of the browser
\* session, with the provider's event id or without one, or a row of the
\* reference site, which has no id.  The provider's ids are one per match.
MatchDates == {"2024-05-01", "2024-05-02"}
MatchTeams == {"Arsenal", "Chelsea", "Paris Saint-Germain", "Paris Saint Germain"}

CollectedEvents ==
    {m \in [source : {"sofascore", "fbref"}, has_id : BOOLEAN, date : MatchDates,
            home_team : MatchTeams, away_team : MatchTeams] :
        /\ m.home_team # m.away_team
        /\ m.source = "fbref" => ~m.has_id}

\* parse_events, line 494: event.get('id', 'unknown'); the reference
\* site's matches pass through without an 'id'.
ParsedId(m) ==
    IF m.source = "fbref" THEN [present |-> FALSE, id |-> ""]
    ELSE IF m.has_id
         THEN [present |-> TRUE,
               id |-> "event " \o m.date \o " " \o m.home_team \o " v " \o m.away_team]
         ELSE [present |-> TRUE, id |-> "unknown"]

\* scrape_fixtures, line 112: match.get('id', generate_match_id(...))
FixtureMatchId(m) ==
    IF ParsedId(m).present THEN ParsedId(m).id
    ELSE generate_match_id_str(m.date, m.home_team, m.away_team)

SameMatch(a, b) ==
    a.date = b.date /\ a.home_team = b.home_team /\ a.away_team = b.away_team

InitMatchIds ==
    /\ fn_pc = "call"
    /\ \E a \in CollectedEvents, b \in CollectedEvents :
         /\ ~SameMatch(a, b)
         /\ fn_arg = [fn |-> "match_id", first |-> a, second |-> b]
    /\ fn_ret = [fn |-> "none"]
    /\ MenuIdle
    /\ now = 0
    /\ pc = "idle"
    /\ fixtures_df = <<>>
    /\ team_history_df = <<>>
    /\ processed_fixtures = <<>>
    /\ processed_team_history = <<>>
    /\ env = NoWebhooks
    /\ RunIdle
    /\ FetchIdle
    /\ ScraperIdle

AssignMatchIds ==
    /\ fn_pc = "call"
    /\ fn_arg.fn = "match_id"
    /\ fn_ret' = [fn |-> "match_id",
                  first |-> FixtureMatchId(fn_arg.first),
                  second |-> FixtureMatchId(fn_arg.second)]
    /\ fn_pc' = "done"
    /\ UNCHANGED <<now, fn_arg, menuVars, fetchVars, scrapeVars, runVars>>

NextMatchIds == AssignMatchIds

SpecMatchIds == InitMatchIds /\ [][NextMatchIds]_vars

\* C26: two collected matches that differ in date, home team or away team
\* never get the same match_id from scrape_fixtures, whether the id is the
\* provider's or derived, so that the deduplication on match_id never drops
\* a different match.
C26_DistinctMatchIds ==
    fn_pc = "done" /\ fn_ret.fn = "match_id" => fn_ret.first # fn_ret.second

(***************************************************************************)
(* SpecPerspectives: one played match, home v away, as the team scraper    *)
(* records it from the schedule of the home team and from the schedule of  *)
(* the away team.  The site lists every club, also in the Opponent column, *)
(* under the name the scraper is called with.                              *)
(***************************************************************************)
\* A name of the model as the string it stands for.
RECURSIVE JoinWords(_)
JoinWords(name) ==
    IF name = <<>> THEN ""
    ELSE IF Len(name) = 1 THEN name[1]
    ELSE name[1] \o " " \o JoinWords(Tail(name))

ScheduleTeamNames ==
    {Arsenal, Chelsea, Tottenham, Spurs, ManchesterUnited, ManUnited,
     <<"PSG">>, <<"Paris", "Saint-Germain">>}

\* The home_team and away_team of the record built from the schedule of
\* team_name, whose row names the opponent and the venue: lines 643 and
\* 669-688 of the detailed scrape (the opponent is normalized, team_name is
\* not), lines 789-802 of the basic scrape (neither is).
RecordMatchId(scrape, date, team_name, opponent, is_home) ==
    LET other == IF scrape = "detailed" THEN normalize_team_name(opponent)
                 ELSE opponent
        home_team == IF is_home THEN team_name ELSE other
        away_team == IF is_home THEN other ELSE team_name
    IN  generate_match_id_str(date, JoinWords(home_team), JoinWords(away_team))

InitPerspectives ==
    /\ fn_pc = "call"
    /\ fn_arg \in {a \in [fn : {"record_match_id"}, date : MatchDates,
                         home : ScheduleTeamNames, away : ScheduleTeamNames,
                         home_scrape : {"detailed", "basic"},
                         away_scrape : {"detailed", "basic"}] :
                      a.home # a.away}
    /\ fn_ret = [fn |-> "none"]
    /\ MenuIdle
    /\ now = 0
    /\ pc = "idle"
    /\ fixtures_df = <<>>
    /\ team_history_df = <<>>
    /\ processed_fixtures = <<>>
    /\ processed_team_history = <<>>
    /\ env = NoWebhooks
    /\ RunIdle
    /\ FetchIdle
    /\ ScraperIdle

BuildBothRecords ==
    /\ fn_pc = "call"
    /\ fn_arg.fn = "record_match_id"
    /\ fn_ret' = [fn |-> "record_match_id",
                  from_home |-> RecordMatchId(fn_arg.home_scrape, fn_arg.date,
                                              fn_arg.home, fn_arg.away, TRUE),
                  from_away |-> RecordMatchId(fn_arg.away_scrape, fn_arg.date,
                                              fn_arg.away, fn_arg.home, FALSE)]
    /\ fn_pc' = "done"
    /\ UNCHANGED <<now, fn_arg, menuVars, fetchVars, scrapeVars, runVars>>

NextPerspectives == BuildBothRecords

SpecPerspectives == InitPerspectives /\ [][NextPerspectives]_vars

\* C27: the record of a played match built from the schedule of one of its
\* teams and the record built from the schedule of the other carry the same
\* match_id, for every pair of team names, names the alias table rewrites
\* included.
C27_SameIdFromBothSides ==
    fn_pc = "done" /\ fn_ret.fn = "record_match_id" =>
        fn_ret.from_home = fn_ret.from_away

(***************************************************************************)
(* SpecJoinKeys: one fixture whose two raw team names come from the alias   *)
(* table is taken through the fixtures scraper, process_fixtures, the team  *)
(* scraper, process_team_history, calculate_team_metrics and the join's     *)
(* key columns.                                                            *)
(***************************************************************************)
\* The keys and the values of TEAM_NAME_MAPPING.
AliasNames == DOMAIN TEAM_NAME_MAPPING \cup AliasValues

AliasRawNames ==
    AliasNames \cup {n \o <<x>> : n \in AliasNames, x \in {"FC", "CF", "AFC"}}

\* The metrics rows of the history scraped for team_name alone.
MetricsScrapedFor(team_name) ==
    calculate_team_metrics(
        process_team_history(TeamRecords(team_name, LookbackMatches), 1, TRUE),
        TRUE)

InitJoinKeys ==
    /\ fn_pc = "call"
    /\ fn_arg \in [fn : {"join_keys"}, home : AliasRawNames, away : AliasNames]
    /\ fn_ret = [fn |-> "none"]
    /\ MenuIdle
    /\ now = SecondsPerDay
    /\ pc = "idle"
    /\ fixtures_df = <<>>
    /\ team_history_df = <<>>
    /\ processed_fixtures = <<>>
    /\ processed_team_history = <<>>
    /\ env = NoWebhooks
    /\ RunIdle
    /\ FetchIdle
    /\ ScraperIdle

\* Steps 1 to 5 of run for one collected match, every step succeeding.
ComputeJoinKeys ==
    /\ fn_pc = "call"
    /\ fn_arg.fn = "join_keys"
    /\ LET match == [match_id |-> 1, date |-> 1, home_team |-> fn_arg.home,
                     away_team |-> fn_arg.away, league |-> "Premier League",
                     kickoff_time |-> "15:00"]
           fixtures == process_fixtures(<<ToFixture(match)>>, 1, TRUE)
           history == process_team_history(
                          CombinedHistory(TeamsOf(fixtures), LookbackMatches),
                          1, TRUE)
           metrics == calculate_team_metrics(history, TRUE)
           keyed == WithNormColumns(fixtures)
       IN  fn_ret' = [fn |-> "join_keys",
                      home_team |-> fixtures[1].home_team,
                      away_team |-> fixtures[1].away_team,
                      home_matched |-> MetricsRowsOf(metrics, keyed[1].home_team_norm),
                      away_matched |-> MetricsRowsOf(metrics, keyed[1].away_team_norm),
                      home_own |-> MetricsScrapedFor(fixtures[1].home_team),
                      away_own |-> MetricsScrapedFor(fixtures[1].away_team)]
    /\ fn_pc' = "done"
    /\ UNCHANGED <<now, fn_arg, menuVars, fetchVars, scrapeVars, runVars>>

NextJoinKeys == ComputeJoinKeys

SpecJoinKeys == InitJoinKeys /\ [][NextJoinKeys]_vars

\* C28: for every raw team name built from the alias table, the key the join
\* computes for the fixture side equals the key it computes for the history
\* scraped for that fixture team, so the fixture team is matched to the
\* metrics rows of its own history, all of them, and to no other team's.
C28_OwnMetricsRows ==
    fn_pc = "done" /\ fn_ret.fn = "join_keys" =>
        /\ fn_ret.home_own # <<>>
        /\ fn_ret.away_own # <<>>
        /\ fn_ret.home_matched = fn_ret.home_own
        /\ fn_ret.away_matched = fn_ret.away_own

\* A raw name with a suffix that the alias table rewrites back and forth,
\* against a different team, both matched to their own rows.
C28_Witness ==
    /\ fn_pc = "done"
    /\ fn_ret.fn = "join_keys"
    /\ fn_arg.home = <<"Tottenham", "Hotspur", "FC">>
    /\ fn_arg.away = <<"Newcastle">>
    /\ fn_ret.home_team = <<"Tottenham", "Hotspur">>
    /\ fn_ret.home_matched = fn_ret.home_own
    /\ Len(fn_ret.home_matched) = 2
    /\ fn_ret.away_matched # fn_ret.home_matched

(***************************************************************************)
(* Claims about the outputs and the banners of run (Spec).                 *)
(***************************************************************************)
\* C29: whenever run returns a table (not None), the three canonical output
\* files football_data.csv, upcoming_fixtures.csv and team_history.csv were
\* written during that run, so a run never reports success while output
\* files of an earlier run are left in place.
C29_ReturnedTableWasWritten ==
    pc = "done" /\ result.kind = "table" => OutputFiles \subseteq written

\* C30: every run that logged the start-of-pipeline banner and has left run
\* on one of its exit paths (success, caught exception, no fixtures found,
\* no processed fixtures) has logged the end-of-pipeline banner.
C30_EndBannerOnEveryExit ==
    pc = "done" /\ ~propagated /\ "START" \in Range(log) => "END" \in Range(log)

=============================================================================
